---- MODULE Spec2Model ----
(***************************************************************************)
(* trackcutter.c: the cutting pipeline (frame source, per-frame filter,    *)
(* ring buffers, RMS detector, segmentation state machine, lead-in buffer, *)
(* cut-log and extraction sinks, driver loop).                             *)
(*                                                                         *)
(* Samples are fixed-point integers (the source uses double): a sample is  *)
(* an integer number of amplitude units, a square an integer number of     *)
(* squared units, and the high-pass coefficient alpha is the rational      *)
(* alpha_num / alpha_den.  Frame counts of type sf_count_t (64 bit) are    *)
(* integers; SfCountMax is the largest integer TLC can hold.             *)
(*                                                                         *)
(* Ring cursors are slot numbers in frames: the source's pointer           *)
(* main_buf + k * numchannels is slot k, and main_buf_edge is slot         *)
(* rms_window_len.                                                         *)
(***************************************************************************)
EXTENDS Integers, Sequences, FiniteSets, TLC

\* ------------------------------------------------------------------------
\* Program constants
\* ------------------------------------------------------------------------
RMS_WINDOW_PERIOD == 50
MAX_CHANNELS == 8
DFL_MIN_SILENCE_PERIOD == 2000
DFL_MIN_SIGNAL_PERIOD == 100
DFL_MIN_TRACK_LENGTH == 40
INT_MAX == 2147483647
\* SF_COUNT_MAX of sndfile.h (an identifier cannot begin with SF_)
SfCountMax == 2147483647
\* 2 * pi * HIGH_PASS_CORNER_FREQ, rounded: alpha = tau / (tau + dt)
\*   = samplerate / (samplerate + 2 * pi * 20)
HIGH_PASS_OMEGA == 126

NULL == "NULL"

\* ------------------------------------------------------------------------
\* Bounds of the model
\* ------------------------------------------------------------------------
\* Largest number of frames the input file holds after the start position.
MaxFrames == 48
\* The longest silence between two tracks of an input file made of tracks.
MaxGap == 7
\* Largest number of frames a short input file holds.
MaxShort == 6
\* Amplitude of a loud sample, in fixed-point units (a quiet sample is 0).
Loud == 8
\* Largest number of characters in the argument of a range option.
MaxArgLen == 3

Channels(n) == 0 .. (n - 1)
AllChannels == 0 .. (MAX_CHANNELS - 1)

Min(a, b) == IF a < b THEN a ELSE b
Max(a, b) == IF a < b THEN b ELSE a

\* Division rounded to the nearest integer (d > 0): the fixed-point image of
\* a floating-point quotient.
RoundDiv(n, d) == (2 * n + d) \div (2 * d)

\* A frame of the codec: one sample per channel of the stream; channels the
\* stream does not have are absent from the buffers (never read by the code).
ZeroFrame(n) == [c \in Channels(n) |-> 0]
InputFrames(n) == [Channels(n) -> {0, Loud}]


\* ------------------------------------------------------------------------
\* Options (options_t), as left by init_options and parse_options
\* ------------------------------------------------------------------------
\* init_options: the defaults.  The input stream's sample rate and channel
\* count (in_sfinfo) come from the file header or from --rate/--channels;
\* noise_floor_sq is x_nf squared, in squared fixed-point units.
\* (format is in_sfinfo.format in its parts; the zeroed structure has none.)
NoFormat == [major |-> NULL, endian |-> NULL, subtype |-> NULL]

init_options ==
    [ task |-> "TCT_CUTTING",
      cut_point_action |-> "CPA_LOG_POINT",
      track_names_file_name |-> NULL,
      min_silence_period |-> DFL_MIN_SILENCE_PERIOD,
      min_signal_period |-> DFL_MIN_SIGNAL_PERIOD,
      min_track_length |-> DFL_MIN_TRACK_LENGTH,
      noise_floor_sq |-> 1,
      start_frame_idx |-> 0,
      end_frame_idx |-> SfCountMax,
      track_num_start |-> 0,
      track_num_end |-> INT_MAX,
      dc_offset |-> [c \in AllChannels |-> 0],
      high_pass_filter_enabled |-> FALSE,
      samplerate |-> 40,
      channels |-> 1,
      input_is_raw |-> FALSE,
      format |-> NoFormat,
      in_file_name |-> NULL ]

\* The locals of parse_options as they are declared.
parse_locals ==
    [ raw_rate_given |-> FALSE,
      raw_channels_given |-> FALSE,
      raw_bits_given |-> FALSE,
      raw_sign_given |-> FALSE,
      raw_endian_given |-> FALSE,
      raw_bits |-> 0,
      raw_is_fp |-> FALSE,
      raw_is_signed |-> FALSE,
      raw_is_little_endian |-> FALSE ]

\* ------------------------------------------------------------------------
\* Option arguments (parse_int_boundary, parse_frame_range, parse_track_range)
\* ------------------------------------------------------------------------
\* An option argument is a string: a sequence of characters.
Digits == <<"0", "1", "2", "3", "4", "5", "6", "7", "8", "9">>
IsDigit(ch) == \E d \in 1 .. 10 : Digits[d] = ch
DigitValue(ch) == (CHOOSE d \in 1 .. 10 : Digits[d] = ch) - 1
IsSpace(ch) == ch = " "

\* The index of the first character of s at or after i that is not white
\* space (Len(s) + 1 when there is none): the white-space directive of sscanf.
RECURSIVE SkipSpace(_, _)
SkipSpace(s, i) ==
    IF i <= Len(s) /\ IsSpace(s[i]) THEN SkipSpace(s, i + 1) ELSE i

\* The index after the run of digits of s that starts at i.
RECURSIVE SkipDigits(_, _)
SkipDigits(s, i) ==
    IF i <= Len(s) /\ IsDigit(s[i]) THEN SkipDigits(s, i + 1) ELSE i

\* The decimal value of the digits s[i] .. s[j - 1], on top of acc.
RECURSIVE DecimalValue(_, _, _, _)
DecimalValue(s, i, j, acc) ==
    IF i < j THEN DecimalValue(s, i + 1, j, 10 * acc + DigitValue(s[i])) ELSE acc

\* sscanf(s, "%lld %n", &n, &s_tail_idx): white space, an optional sign, at
\* least one digit, then white space; converted tells whether the return value
\* is 1, tail is s_tail_idx counted from 1.
ScanInteger(s) ==
    LET b == SkipSpace(s, 1)
        signed == b <= Len(s) /\ s[b] \in {"-", "+"}
        d == IF signed THEN b + 1 ELSE b
        e == SkipDigits(s, d)
        v == DecimalValue(s, d, e, 0)
    IN IF e > d
       THEN [converted |-> TRUE, n |-> IF signed /\ s[b] = "-" THEN 0 - v ELSE v,
             tail |-> SkipSpace(s, e)]
       ELSE [converted |-> FALSE, n |-> 0, tail |-> SkipSpace(s, 1)]

\* parse_int_boundary: the value of boundary string s, dfl when s is empty or
\* white space; fatal when the program is terminated with an error message.
parse_int_boundary(s, dfl) ==
    LET sc == ScanInteger(s)
    IN IF sc.converted /\ sc.n < 0 THEN [fatal |-> TRUE, n |-> sc.n]
       ELSE IF sc.tail <= Len(s) THEN [fatal |-> TRUE, n |-> sc.n]
       ELSE [fatal |-> FALSE, n |-> IF sc.converted THEN sc.n ELSE dfl]

\* strchr(optarg, '-') and strrchr(optarg, '-'), counted from 1; 0 for NULL.
Hyphens(arg) == {i \in 1 .. Len(arg) : arg[i] = "-"}
strchr_hyphen(arg) ==
    IF Hyphens(arg) = {} THEN 0 ELSE CHOOSE i \in Hyphens(arg) : \A j \in Hyphens(arg) : i <= j
strrchr_hyphen(arg) ==
    IF Hyphens(arg) = {} THEN 0 ELSE CHOOSE i \in Hyphens(arg) : \A j \in Hyphens(arg) : j <= i

\* The two boundary strings of a range argument with its hyphen at h.
BeforeHyphen(arg, h) == SubSeq(arg, 1, h - 1)
AfterHyphen(arg, h) == SubSeq(arg, h + 1, Len(arg))

\* parse_frame_range: the options it leaves and whether it terminated the
\* program.  The boundaries are assigned one after the other, each only
\* if its parse returned.
parse_frame_range(o, arg) ==
    LET h == strchr_hyphen(arg)
        a == parse_int_boundary(BeforeHyphen(arg, h), 0)
        b == parse_int_boundary(AfterHyphen(arg, h), SfCountMax)
    IN IF h = 0 \/ h # strrchr_hyphen(arg) THEN [fatal |-> TRUE, o |-> o]
       ELSE IF a.fatal THEN [fatal |-> TRUE, o |-> o]
       ELSE IF b.fatal THEN [fatal |-> TRUE, o |-> [o EXCEPT !.start_frame_idx = a.n]]
       ELSE [fatal |-> b.n < a.n,
             o |-> [o EXCEPT !.start_frame_idx = a.n, !.end_frame_idx = b.n]]

\* parse_track_range: the test after the boundaries are assigned is on the
\* frame range of the options.
parse_track_range(o, arg) ==
    LET h == strchr_hyphen(arg)
        a == parse_int_boundary(BeforeHyphen(arg, h), 1)
        b == parse_int_boundary(AfterHyphen(arg, h), INT_MAX)
    IN IF h = 0 \/ h # strrchr_hyphen(arg) THEN [fatal |-> TRUE, o |-> o]
       ELSE IF a.fatal THEN [fatal |-> TRUE, o |-> o]
       ELSE IF b.fatal THEN [fatal |-> TRUE, o |-> [o EXCEPT !.track_num_start = a.n]]
       ELSE [fatal |-> o.end_frame_idx < o.start_frame_idx,
             o |-> [o EXCEPT !.track_num_start = a.n, !.track_num_end = b.n]]

\* The index after the run of octal digits of s that starts at i.
RECURSIVE SkipOctalDigits(_, _)
SkipOctalDigits(s, i) ==
    IF i <= Len(s) /\ IsDigit(s[i]) /\ DigitValue(s[i]) < 8
    THEN SkipOctalDigits(s, i + 1) ELSE i

\* The octal value of the digits s[i] .. s[j - 1], on top of acc.
RECURSIVE OctalValue(_, _, _, _)
OctalValue(s, i, j, acc) ==
    IF i < j THEN OctalValue(s, i + 1, j, 8 * acc + DigitValue(s[i])) ELSE acc

\* strtol(s, &tail, 0) on strings without a hexadecimal prefix: white space,
\* an optional sign, then octal digits after a leading 0 and decimal digits
\* otherwise; whatever follows the digits is left to tail.  any tells whether
\* tail differs from s.
strtol(s) ==
    LET b == SkipSpace(s, 1)
        signed == b <= Len(s) /\ s[b] \in {"-", "+"}
        d == IF signed THEN b + 1 ELSE b
        octal == d <= Len(s) /\ s[d] = "0"
        e == IF octal THEN SkipOctalDigits(s, d) ELSE SkipDigits(s, d)
        v == IF octal THEN OctalValue(s, d, e, 0) ELSE DecimalValue(s, d, e, 0)
    IN [any |-> e > d, n |-> IF signed /\ s[b] = "-" THEN 0 - v ELSE v]

\* parse_positive_int_arg: the value of the argument, fatal when the program
\* is terminated because nothing was converted or the value is not positive.
parse_positive_int_arg(s) ==
    LET r == strtol(s)
    IN [fatal |-> ~r.any \/ r.n <= 0, n |-> r.n]

\* ------------------------------------------------------------------------
\* parse_options after the last option
\* ------------------------------------------------------------------------
\* The file operands: one operand names the input file unless it is "-".
ParseOperands(o, operands) ==
    IF Len(operands) = 1
    THEN IF operands[1] # "-"
         THEN [fatal |-> FALSE, o |-> [o EXCEPT !.in_file_name = operands[1]]]
         ELSE [fatal |-> o.track_names_file_name = "-", o |-> o]
    ELSE [fatal |-> TRUE, o |-> o]

\* The validation of the raw format parameters without the test of the
\* width of floating-point samples.
RawParametersValidAnyFloat(ps) ==
    /\ ps.raw_rate_given
    /\ ps.raw_channels_given
    /\ ps.raw_bits_given
    /\ ps.raw_sign_given
    /\ ps.raw_endian_given
    /\ ~(~ps.raw_is_fp /\ ps.raw_is_signed /\ ps.raw_bits = 64)
    /\ ~(~ps.raw_is_fp /\ ~ps.raw_is_signed /\ ps.raw_bits # 8)

\* The raw format parameters are complete and name a sample format the
\* program reads.
RawParametersValid(ps) ==
    /\ ps.raw_rate_given
    /\ ps.raw_channels_given
    /\ ps.raw_bits_given
    /\ ps.raw_sign_given
    /\ ps.raw_endian_given
    /\ ~(~ps.raw_is_fp /\ ps.raw_is_signed /\ ps.raw_bits = 64)
    /\ ~(~ps.raw_is_fp /\ ~ps.raw_is_signed /\ ps.raw_bits # 8)
    /\ ~(ps.raw_is_fp /\ ps.raw_bits < 32)

\* The format code pieced together for libsndfile.
RawFormat(ps) ==
    [ major |-> "SF_FORMAT_RAW",
      endian |-> IF ps.raw_is_little_endian THEN "SF_ENDIAN_LITTLE" ELSE "SF_ENDIAN_BIG",
      subtype |->
          IF ps.raw_is_fp /\ ps.raw_bits = 32 THEN "SF_FORMAT_FLOAT"
          ELSE IF ps.raw_is_fp /\ ps.raw_bits = 64 THEN "SF_FORMAT_DOUBLE"
          ELSE IF ~ps.raw_is_signed THEN "SF_FORMAT_PCM_U8"
          ELSE IF ps.raw_bits = 8 THEN "SF_FORMAT_PCM_S8"
          ELSE IF ps.raw_bits = 16 THEN "SF_FORMAT_PCM_16"
          ELSE IF ps.raw_bits = 24 THEN "SF_FORMAT_PCM_24"
          ELSE "SF_FORMAT_PCM_32" ]

\* parse_options once getopt_long has returned -1.
parse_options_end(o, ps, operands) ==
    LET f == ParseOperands(o, operands)
    IN IF f.fatal THEN f
       ELSE IF ~f.o.input_is_raw THEN f
       ELSE IF ~RawParametersValid(ps) THEN [fatal |-> TRUE, o |-> f.o]
       ELSE [fatal |-> FALSE, o |-> [f.o EXCEPT !.format = RawFormat(ps)]]

\* ------------------------------------------------------------------------
\* Ring buffers and the per-frame filter
\* ------------------------------------------------------------------------
\* advance_buf_ptrs: head takes the tail's slot, tail and centre move on by
\* one frame and wrap to the base when they reach the edge.
Wrap(slot, edge) == IF slot >= edge THEN 0 ELSE slot

\* advance_buf_ptrs with the head cursors taken from the tail cursors after
\* these have moved on.
advance_buf_ptrs_head_late(st) ==
    [st EXCEPT !.main_buf_head = Wrap(st.main_buf_tail + 1, st.rms_window_len),
               !.sq_buf_head = Wrap(st.sq_buf_tail + 1, st.rms_window_len),
               !.main_buf_tail = Wrap(st.main_buf_tail + 1, st.rms_window_len),
               !.main_buf_cen = Wrap(st.main_buf_cen + 1, st.rms_window_len),
               !.sq_buf_tail = Wrap(st.sq_buf_tail + 1, st.rms_window_len),
               !.sq_buf_cen = Wrap(st.sq_buf_cen + 1, st.rms_window_len)]

advance_buf_ptrs(st) ==
    [st EXCEPT !.main_buf_head = st.main_buf_tail,
               !.sq_buf_head = st.sq_buf_tail,
               !.main_buf_tail = Wrap(st.main_buf_tail + 1, st.rms_window_len),
               !.main_buf_cen = Wrap(st.main_buf_cen + 1, st.rms_window_len),
               !.sq_buf_tail = Wrap(st.sq_buf_tail + 1, st.rms_window_len),
               !.sq_buf_cen = Wrap(st.sq_buf_cen + 1, st.rms_window_len)]

\* The head sample as filter_new_frame would leave it if the high-pass
\* output replaced the sample whether or not -H was given.
FilteredAlwaysHighPass(o, st, c) ==
    RoundDiv(st.alpha_num * ((st.main_buf[st.main_buf_head][c] + o.dc_offset[c])
                               - st.hpf_prev_rej[c]), st.alpha_den)

\* The high-pass filter output for input x and previous rejection prev_rej.
HpfOut(st, x, prev_rej) == RoundDiv(st.alpha_num * (x - prev_rej), st.alpha_den)

\* The head sample of channel c after DC correction.
Corrected(o, st, c) == st.main_buf[st.main_buf_head][c] + o.dc_offset[c]

\* The head sample of channel c as filter_new_frame leaves it in main_buf.
Filtered(o, st, c) ==
    IF o.high_pass_filter_enabled
    THEN HpfOut(st, Corrected(o, st, c), st.hpf_prev_rej[c])
    ELSE Corrected(o, st, c)

\* filter_new_frame with the old square subtracted from the running total
\* only after the slot has been overwritten with the new one.
filter_new_frame_subtract_late(o, st) ==
    LET chans == Channels(st.numchannels)
        sq(c) == Filtered(o, st, c) * Filtered(o, st, c)
    IN [st EXCEPT
          !.x_sq_ttl = [c \in AllChannels |->
              IF c \in chans
              THEN (st.x_sq_ttl[c] - sq(c)) + sq(c)
              ELSE st.x_sq_ttl[c]],
          !.hpf_prev_rej = [c \in AllChannels |->
              IF c \in chans
              THEN Corrected(o, st, c)
                     - HpfOut(st, Corrected(o, st, c), st.hpf_prev_rej[c])
              ELSE st.hpf_prev_rej[c]],
          !.main_buf[st.main_buf_head] = [c \in chans |-> Filtered(o, st, c)],
          !.sq_buf[st.sq_buf_head] = [c \in chans |-> sq(c)],
          !.frames_proc_ttl = st.frames_proc_ttl + 1]

\* filter_new_frame with the square taken of the sample as read, before the
\* DC offset and the high-pass filter.
filter_new_frame_square_raw(o, st) ==
    LET chans == Channels(st.numchannels)
        raw(c) == st.main_buf[st.main_buf_head][c]
        sq(c) == raw(c) * raw(c)
    IN [st EXCEPT
          !.x_sq_ttl = [c \in AllChannels |->
              IF c \in chans
              THEN (st.x_sq_ttl[c] - st.sq_buf[st.sq_buf_head][c]) + sq(c)
              ELSE st.x_sq_ttl[c]],
          !.hpf_prev_rej = [c \in AllChannels |->
              IF c \in chans
              THEN Corrected(o, st, c)
                     - HpfOut(st, Corrected(o, st, c), st.hpf_prev_rej[c])
              ELSE st.hpf_prev_rej[c]],
          !.main_buf[st.main_buf_head] = [c \in chans |-> Filtered(o, st, c)],
          !.sq_buf[st.sq_buf_head] = [c \in chans |-> sq(c)],
          !.frames_proc_ttl = st.frames_proc_ttl + 1]

\* filter_new_frame: the channels are independent of each other, so the loop
\* over c is one simultaneous update.  hpf_out, hpf_rej and hpf_prev_out are
\* scratch values; hpf_rej_ttl is read by print_analysis only.
filter_new_frame(o, st) ==
    LET chans == Channels(st.numchannels)
        sq(c) == Filtered(o, st, c) * Filtered(o, st, c)
    IN [st EXCEPT
          !.x_sq_ttl = [c \in AllChannels |->
              IF c \in chans
              THEN (st.x_sq_ttl[c] - st.sq_buf[st.sq_buf_head][c]) + sq(c)
              ELSE st.x_sq_ttl[c]],
          !.hpf_prev_rej = [c \in AllChannels |->
              IF c \in chans
              THEN Corrected(o, st, c)
                     - HpfOut(st, Corrected(o, st, c), st.hpf_prev_rej[c])
              ELSE st.hpf_prev_rej[c]],
          !.main_buf[st.main_buf_head] = [c \in chans |-> Filtered(o, st, c)],
          !.sq_buf[st.sq_buf_head] = [c \in chans |-> sq(c)],
          !.frames_proc_ttl = st.frames_proc_ttl + 1]

\* we_have_signal with a sum equal to the threshold taken for signal.
we_have_signal_at_threshold(st) ==
    \E c \in Channels(st.numchannels) : st.n_x_nf_sq <= st.x_sq_ttl[c]

\* we_have_signal: some channel of the stream has its running sum of squares
\* strictly above the threshold.
we_have_signal(st) ==
    \E c \in Channels(st.numchannels) : st.n_x_nf_sq < st.x_sq_ttl[c]

\* ------------------------------------------------------------------------
\* Files
\* ------------------------------------------------------------------------
\* The codec's input file: pos is the index of the next frame it delivers,
\* at_end is set once it has delivered its last frame and a read came back
\* short (a file holds at most max_frames frames from start_frame_idx on).
\* Its frames from start_frame_idx on are either given (known, with
\* content: a sequence of stretches) or chosen read by read.  The track
\* names file: its lines (trailing whitespace trimmed), the number of lines
\* consumed, and the stream's end-of-file indicator.
\* Reading one line of the names file (fgetc up to '\n', or getline): the
\* end-of-file indicator is set by the read that finds nothing left.
ReadNameLine(nf) ==
    IF nf.pos < Len(nf.lines)
    THEN [nf EXCEPT !.pos = nf.pos + 1]
    ELSE [nf EXCEPT !.feof = TRUE]

\* The loop of open_track_names_file: consumes lines while cur_track_num is
\* below track_num_start and the end of the file has not been seen.
RECURSIVE SkipNames(_, _, _)
SkipNames(o, num, nf) ==
    IF num < o.track_num_start /\ ~nf.feof
    THEN SkipNames(o, num + 1, ReadNameLine(nf))
    ELSE [cur_track_num |-> num, names_file |-> nf]

\* open_track_names_file
open_track_names_file(o, m) ==
    LET r == SkipNames(o, 1, m.io.names_file)
    IN IF r.names_file.feof
       THEN [m EXCEPT !.st.cur_track_num = o.track_num_start,
                      !.st.track_names_file = NULL,
                      !.io.names_file = r.names_file]
       ELSE [m EXCEPT !.st.cur_track_num = r.cur_track_num,
                      !.st.track_names_file = "OPEN",
                      !.io.names_file = r.names_file]

\* fetch_next_track_name
fetch_next_track_name(m) ==
    IF m.st.track_names_file = NULL
    THEN m
    ELSE LET nf == ReadNameLine(m.io.names_file)
         IN IF nf.feof
            THEN [m EXCEPT !.st.track_names_file = NULL,
                           !.st.cur_track_name = NULL,
                           !.io.names_file = nf]
            ELSE [m EXCEPT !.st.cur_track_name = nf.lines[nf.pos],
                           !.io.names_file = nf]

\* ------------------------------------------------------------------------
\* Start-up (init_state)
\* ------------------------------------------------------------------------
\* The lengths init_state derives from the sample rate.
WindowLen(o) == (o.samplerate * RMS_WINDOW_PERIOD) \div 1000
MinSilenceLen(o) == (o.samplerate * o.min_silence_period) \div 1000
MinSignalLen(o) == (o.samplerate * o.min_signal_period) \div 1000
MinTrackLen(o) == o.samplerate * o.min_track_length

\* The product of two non-negative ints as 32-bit two's complement
\* arithmetic leaves it when it wraps, computed on 16-bit halves.
IntMul32(a, b) ==
    LET a1 == a \div 65536
        a0 == a % 65536
        b1 == b \div 65536
        b0 == b % 65536
        p0 == a0 * (b0 % 256)
        p1 == a0 * (b0 \div 256)
        low == p0 + ((p1 % 256) * 256)
        lo16 == low % 65536
        carry == (low \div 65536) + (p1 \div 256)
        hi16 == (carry + ((a1 * b0) % 65536) + ((a0 * b1) % 65536)) % 65536
    IN IF hi16 >= 32768
       THEN ((hi16 - 65536) * 65536) + lo16
       ELSE (hi16 * 65536) + lo16

\* Integer division of C: the quotient is truncated towards zero.
CDiv(n, d) == IF n < 0 /\ n % d # 0 THEN (n \div d) + 1 ELSE n \div d

\* The product r * p fits an int.
FitsInt(r, p) == p <= INT_MAX \div r

\* r * p / 1000 for positive ints r and p as the program computes it.  When
\* the product overflows the behaviour is undefined: the value is the one
\* the wrapped product gives or the one a product kept in a wider register
\* gives.
IntScale(r, p) ==
    IF FitsInt(r, p) THEN {(r * p) \div 1000}
    ELSE { CDiv(IntMul32(r, p), 1000),
           (r * (p \div 1000)) + ((r * (p % 1000)) \div 1000) }

\* The lengths init_state derives in cutting mode: min_silence_len,
\* min_signal_len and min_track_len.
DerivedLens(o) ==
    { [silence |-> s, signal |-> g, track |-> t] :
        s \in IntScale(o.samplerate, o.min_silence_period),
        g \in IntScale(o.samplerate, o.min_signal_period),
        t \in {IntMul32(o.samplerate, o.min_track_length)} }

\* The priming loop of init_state: filter_new_frame on every slot from the
\* centre to the edge, the head cursors used as the loop counter.
RECURSIVE PrimeFilter(_, _)
PrimeFilter(o, st) ==
    IF st.main_buf_head < st.rms_window_len
    THEN LET f == filter_new_frame(o, st)
         IN PrimeFilter(o, [f EXCEPT !.main_buf_head = st.main_buf_head + 1,
                                     !.sq_buf_head = st.sq_buf_head + 1])
    ELSE st

\* The centre slot with the half window rounded up.
InitialCentreRoundedUp(w) == (w + 1) \div 2

\* The centre slot init_state starts from.
InitialCentre(w) == w \div 2

\* open_input_file and the buffer set-up of init_state; prime is what the
\* priming read of ra_frame_cnt frames returned (fewer when the file is
\* shorter).
InitBuffers(o, prime) ==
    LET w == WindowLen(o)
        cen == InitialCentre(w)
        n == o.channels
        st0 == [ in_eof |-> FALSE,
                 frames_remaining |-> o.end_frame_idx - o.start_frame_idx,
                 cut_context |-> "CCTX_SILENCE",
                 time_to_live |-> 0,
                 frames_read_ttl |-> w - cen,
                 frames_proc_ttl |-> 0,
                 cur_frame_pos |-> o.start_frame_idx,
                 cur_track_num |-> 1,
                 cur_track_name |-> NULL,
                 cur_track_start |-> 0,
                 numchannels |-> n,
                 samplerate |-> o.samplerate,
                 rms_window_len |-> w,
                 min_signal_len |-> 0,
                 min_silence_len |-> 0,
                 min_track_len |-> 0,
                 leadin_buf_len |-> 0,
                 ra_frame_cnt |-> w - cen,
                 alpha_num |-> o.samplerate,
                 alpha_den |-> o.samplerate + HIGH_PASS_OMEGA,
                 n_x_nf_sq |-> 0,
                 x_sq_ttl |-> [c \in AllChannels |-> 0],
                 hpf_prev_rej |-> [c \in AllChannels |-> 0],
                 sq_buf |-> [k \in 0 .. (w - 1) |-> ZeroFrame(n)],
                 main_buf |-> [k \in 0 .. (w - 1) |->
                     IF k >= cen /\ k - cen < Len(prime)
                     THEN prime[k - cen + 1] ELSE ZeroFrame(n)],
                 sq_buf_head |-> cen, sq_buf_tail |-> 0, sq_buf_cen |-> cen,
                 main_buf_head |-> cen, main_buf_tail |-> 0, main_buf_cen |-> cen,
                 leadin_buf |-> << >>,
                 out_file |-> 0,
                 cuts_file |-> NULL,
                 track_names_file |-> NULL ]
        st1 == PrimeFilter(o, st0)
    IN [st1 EXCEPT !.main_buf_head = w - 1, !.sq_buf_head = w - 1,
                   !.main_buf_tail = 0, !.sq_buf_tail = 0]

\* init_state in cutting mode, after the buffers are primed.
InitCutting(o, m, lens) ==
    LET st == m.st
        m1 == [m EXCEPT
                 !.st.n_x_nf_sq = o.noise_floor_sq * st.rms_window_len,
                 !.st.min_silence_len = lens.silence,
                 !.st.min_signal_len = lens.signal,
                 !.st.min_track_len = lens.track,
                 !.st.leadin_buf_len =
                     IF o.cut_point_action = "CPA_EXTRACT_TRACK"
                     THEN lens.signal ELSE 0,
                 !.st.cuts_file =
                     IF o.cut_point_action = "CPA_LOG_POINT" THEN "OPEN" ELSE NULL,
                 !.st.cut_context = "CCTX_SILENCE"]
    IN IF o.track_names_file_name # NULL THEN open_track_names_file(o, m1) ELSE m1

\* What print_analysis has divided by: nothing before it is called.
NotPrinted == [avg_rms_divisor |-> -1, dc_offset_divisor |-> -1]

\* init_state: lines are the lines of the track names file (when one is
\* given), prime the frames the priming read returned.  The result bundles
\* the program state (st), the files (io) and the history variables (gh);
\* first_track_num records the track number init_state leaves, pads counts
\* the calls of fetch_next_frame that padded and reported more frames,
\* analysed the calls of analyse_new_frame (the RMS values added to
\* rms_ttl), printed the divisors print_analysis used.
init_state(o, lines, prime, file, lens) ==
    LET st == InitBuffers(o, prime)
        w == st.rms_window_len
        cen == InitialCentre(w)
        m0 == [ st |-> st,
                io |-> [ in_file |-> [ pos |-> o.start_frame_idx + Len(prime),
                                       at_end |-> Len(prime) < st.ra_frame_cnt,
                                       known |-> file.known,
                                       max_frames |-> file.max_frames,
                                       content |-> file.content ],
                         names_file |-> [ lines |-> lines, pos |-> 0, feof |-> FALSE ],
                         cuts |-> << >>,
                         out_files |-> << >>,
                         warned |-> FALSE,
                         fatal |-> FALSE ],
                gh |-> [ ring_idx |-> [k \in 0 .. (w - 1) |->
                             IF k >= cen THEN o.start_frame_idx + (k - cen) ELSE -1],
                         ring_raw |-> [k \in 0 .. (w - 1) |->
                             IF k >= cen /\ k - cen < Len(prime)
                             THEN prime[k - cen + 1] ELSE ZeroFrame(o.channels)],
                         ring_filt |-> st.main_buf,
                         leadin_idx |-> << >>,
                         leadin_raw |-> << >>,
                         leadin_filt |-> << >>,
                         next_idx |-> o.start_frame_idx + st.ra_frame_cnt,
                         first_track_num |-> 0,
                         pads |-> 0,
                         events |-> << >>,
                         analysed |-> 0,
                         printed |-> NotPrinted ] ]
        m1 == IF o.task = "TCT_CUTTING" THEN InitCutting(o, m0, lens) ELSE m0
    IN [m1 EXCEPT !.gh.first_track_num = m1.st.cur_track_num]

\* ------------------------------------------------------------------------
\* Lead-in buffer and sinks
\* ------------------------------------------------------------------------
Extracting(o) == o.cut_point_action = "CPA_EXTRACT_TRACK"
Logging(o) == o.cut_point_action = "CPA_LOG_POINT"

\* leadin_buf_add with an append on a full buffer treated as a fatal error.
leadin_buf_add_overflow_fatal(o, m) ==
    IF ~Extracting(o) THEN m
    ELSE IF Len(m.st.leadin_buf) < m.st.leadin_buf_len
    THEN [m EXCEPT
            !.st.leadin_buf = Append(@, m.st.main_buf[m.st.main_buf_cen]),
            !.gh.leadin_idx = Append(@, m.gh.ring_idx[m.st.main_buf_cen]),
            !.gh.leadin_raw = Append(@, m.gh.ring_raw[m.st.main_buf_cen]),
            !.gh.leadin_filt = Append(@, m.gh.ring_filt[m.st.main_buf_cen])]
    ELSE [m EXCEPT !.io.warned = TRUE, !.io.fatal = TRUE]

\* leadin_buf_add: a copy of the centre frame goes to the end of the lead-in
\* buffer when there is room; otherwise only a warning is printed.
\* (leadin_idx, leadin_raw and leadin_filt record, for each buffered frame,
\* the index of the input frame it is a copy of, that frame as the source
\* delivered it and that frame as filter_new_frame left it.)
leadin_buf_add(o, m) ==
    IF ~Extracting(o) THEN m
    ELSE IF Len(m.st.leadin_buf) < m.st.leadin_buf_len
    THEN [m EXCEPT
            !.st.leadin_buf = Append(@, m.st.main_buf[m.st.main_buf_cen]),
            !.gh.leadin_idx = Append(@, m.gh.ring_idx[m.st.main_buf_cen]),
            !.gh.leadin_raw = Append(@, m.gh.ring_raw[m.st.main_buf_cen]),
            !.gh.leadin_filt = Append(@, m.gh.ring_filt[m.st.main_buf_cen])]
    ELSE [m EXCEPT !.io.warned = TRUE]

\* leadin_buf_purge
leadin_buf_purge(o, m) ==
    IF ~Extracting(o) THEN m
    ELSE [m EXCEPT !.st.leadin_buf = << >>,
                   !.gh.leadin_idx = << >>,
                   !.gh.leadin_raw = << >>,
                   !.gh.leadin_filt = << >>]

\* A per-track output file is recorded by its name, the track it was created
\* for, and a summary of the frames written to it: how many (count), the
\* input index of the first and of the last one, whether each frame written
\* was the input frame following the one written before it (contig), whether
\* each sample written equalled the sample the frame source had delivered
\* for that frame (raw_same), and whether it equalled the sample
\* filter_new_frame had produced for that frame (filt_same).
NewOutFile(name, st) ==
    [ name |-> name, track_num |-> st.cur_track_num, start |-> st.cur_track_start,
      count |-> 0, first |-> -1, last |-> -1, contig |-> TRUE, raw_same |-> TRUE,
      filt_same |-> TRUE, open |-> TRUE, closed_at |-> -1 ]

\* sf_writef_double of one frame.
WriteFrame(f, frame, idx, raw, filt) ==
    [f EXCEPT !.count = f.count + 1,
              !.first = IF f.count = 0 THEN idx ELSE f.first,
              !.last = idx,
              !.contig = f.contig /\ (f.count = 0 \/ idx = f.last + 1),
              !.raw_same = f.raw_same /\ frame = raw,
              !.filt_same = f.filt_same /\ frame = filt]

RECURSIVE WriteFrames(_, _, _, _, _)
WriteFrames(f, frames, idxs, raws, filts) ==
    IF frames = << >> THEN f
    ELSE WriteFrames(WriteFrame(f, Head(frames), Head(idxs), Head(raws), Head(filts)),
                     Tail(frames), Tail(idxs), Tail(raws), Tail(filts))

\* leadin_buf_commit: the buffered frames are written to the output file.
leadin_buf_commit(o, m) ==
    IF ~Extracting(o) THEN m
    ELSE [m EXCEPT !.io.out_files[m.st.out_file] =
            WriteFrames(@, m.st.leadin_buf, m.gh.leadin_idx, m.gh.leadin_raw,
                        m.gh.leadin_filt)]

\* The file name create_new_out_file chooses: the track name when there is a
\* non-empty one, the zero-padded track number otherwise.
OutFileName(st) ==
    IF st.cur_track_name # NULL /\ st.cur_track_name # ""
    THEN [track_name |-> st.cur_track_name, number |-> 0]
    ELSE [track_name |-> "", number |-> st.cur_track_num]

\* create_new_out_file without the commit of the lead-in buffer.
create_new_out_file_no_leadin(o, m) ==
    LET m1 == fetch_next_track_name(m)
        m2 == [m1 EXCEPT
                 !.io.out_files = Append(@, NewOutFile(OutFileName(m1.st), m1.st)),
                 !.st.out_file = Len(m1.io.out_files) + 1]
    IN leadin_buf_purge(o, m2)

\* create_new_out_file with the lead-in buffer committed but not purged.
create_new_out_file_no_purge(o, m) ==
    LET m1 == fetch_next_track_name(m)
        m2 == [m1 EXCEPT
                 !.io.out_files = Append(@, NewOutFile(OutFileName(m1.st), m1.st)),
                 !.st.out_file = Len(m1.io.out_files) + 1]
    IN leadin_buf_commit(o, m2)

\* create_new_out_file
create_new_out_file(o, m) ==
    LET m1 == fetch_next_track_name(m)
        m2 == [m1 EXCEPT
                 !.io.out_files = Append(@, NewOutFile(OutFileName(m1.st), m1.st)),
                 !.st.out_file = Len(m1.io.out_files) + 1]
    IN leadin_buf_purge(o, leadin_buf_commit(o, m2))

\* A track end that reached the sink (a row printed, a file closed).
TrackEnd(m) ==
    [ev |-> "TRACK_END", num |-> m.st.cur_track_num, pos |-> m.st.cur_frame_pos]

\* close_out_file
close_out_file(m) ==
    IF m.st.out_file = 0 THEN m
    ELSE [m EXCEPT !.io.out_files[m.st.out_file].open = FALSE,
                   !.io.out_files[m.st.out_file].closed_at = m.st.cur_frame_pos,
                   !.st.out_file = 0,
                   !.gh.events = Append(@, TrackEnd(m))]

\* print_track_cut: one row of the cuts file.
print_track_cut(m) ==
    IF m.st.cuts_file = NULL THEN m
    ELSE [m EXCEPT
            !.io.cuts = Append(@,
                [ track_num |-> m.st.cur_track_num,
                  start |-> m.st.cur_track_start,
                  end |-> m.st.cur_frame_pos,
                  duration |-> m.st.cur_frame_pos - m.st.cur_track_start,
                  name |-> IF m.st.cur_track_name # NULL
                           THEN m.st.cur_track_name ELSE "" ]),
            !.gh.events = Append(@, TrackEnd(m))]

\* force_end_of_track that overlooks a track in CCTX_TRACK_ENDING.
force_end_of_track_unless_ending(o, m) ==
    IF m.st.cut_context = "CCTX_TRACK_ENDING" THEN m
    ELSE LET m1 == IF Logging(o)
                   THEN IF m.st.cut_context = "CCTX_TRACK"
                        THEN print_track_cut(m) ELSE m
                   ELSE IF Extracting(o) THEN close_out_file(m) ELSE m
         IN IF m1.st.cur_track_name # NULL
            THEN [m1 EXCEPT !.st.cur_track_name = ""]
            ELSE m1

\* force_end_of_track
force_end_of_track(o, m) ==
    LET m1 == IF Logging(o)
              THEN IF m.st.cut_context \in {"CCTX_TRACK", "CCTX_TRACK_ENDING"}
                   THEN print_track_cut(m) ELSE m
              ELSE IF Extracting(o) THEN close_out_file(m) ELSE m
    IN IF m1.st.cur_track_name # NULL
       THEN [m1 EXCEPT !.st.cur_track_name = ""]
       ELSE m1

\* commit_current_frame: in extraction mode the centre frame is written to
\* the output file; a write without an open file is a fatal error.
commit_current_frame(o, m) ==
    IF ~Extracting(o) THEN m
    ELSE IF m.st.out_file = 0 THEN [m EXCEPT !.io.fatal = TRUE]
    ELSE [m EXCEPT !.io.out_files[m.st.out_file] =
            WriteFrame(@, m.st.main_buf[m.st.main_buf_cen],
                       m.gh.ring_idx[m.st.main_buf_cen],
                       m.gh.ring_raw[m.st.main_buf_cen],
                       m.gh.ring_filt[m.st.main_buf_cen])]

\* ------------------------------------------------------------------------
\* Segmentation state machine (update_context)
\* ------------------------------------------------------------------------
\* A track confirmed (TRACK_STARTING to TRACK).
TrackBegin(m) ==
    [ev |-> "TRACK_BEGIN", num |-> m.st.cur_track_num, pos |-> m.st.cur_frame_pos]

\* case CCTX_SILENCE with the track name fetched at the onset instead of at
\* the confirmation of the track.
ContextSilenceFetchesName(o, m) ==
    IF we_have_signal(m.st)
    THEN fetch_next_track_name(leadin_buf_add(o,
           [m EXCEPT !.st.cut_context = "CCTX_TRACK_STARTING",
                     !.st.time_to_live = m.st.min_signal_len - 1,
                     !.st.cur_track_start = m.st.cur_frame_pos]))
    ELSE m

\* case CCTX_SILENCE with the track start taken one frame before the centre
\* frame.
ContextSilenceStartsEarly(o, m) ==
    IF we_have_signal(m.st)
    THEN leadin_buf_add(o,
           [m EXCEPT !.st.cut_context = "CCTX_TRACK_STARTING",
                     !.st.time_to_live = m.st.min_signal_len - 1,
                     !.st.cur_track_start = m.st.cur_frame_pos - 1])
    ELSE m

\* case CCTX_SILENCE with cur_track_start left as it was.
ContextSilenceKeepsStart(o, m) ==
    IF we_have_signal(m.st)
    THEN leadin_buf_add(o,
           [m EXCEPT !.st.cut_context = "CCTX_TRACK_STARTING",
                     !.st.time_to_live = m.st.min_signal_len - 1])
    ELSE m

\* case CCTX_SILENCE with the dwell counter started at min_signal_len: one
\* more starting tick than the lead-in buffer has room for.
ContextSilenceFullDwell(o, m) ==
    IF we_have_signal(m.st)
    THEN leadin_buf_add(o,
           [m EXCEPT !.st.cut_context = "CCTX_TRACK_STARTING",
                     !.st.time_to_live = m.st.min_signal_len,
                     !.st.cur_track_start = m.st.cur_frame_pos])
    ELSE m

\* case CCTX_SILENCE
ContextSilence(o, m) ==
    IF we_have_signal(m.st)
    THEN leadin_buf_add(o,
           [m EXCEPT !.st.cut_context = "CCTX_TRACK_STARTING",
                     !.st.time_to_live = m.st.min_signal_len - 1,
                     !.st.cur_track_start = m.st.cur_frame_pos])
    ELSE m

\* case CCTX_TRACK_STARTING with the abort forgotten: a silence verdict leaves
\* the machine where it is.
ContextTrackStartingNoAbort(o, m) ==
    IF ~we_have_signal(m.st)
    THEN m
    ELSE IF m.st.time_to_live > 0
    THEN [leadin_buf_add(o, m) EXCEPT !.st.time_to_live = m.st.time_to_live - 1]
    ELSE LET m1 == [m EXCEPT !.st.cut_context = "CCTX_TRACK",
                             !.gh.events = Append(@, TrackBegin(m))]
             m2 == IF Logging(o) THEN fetch_next_track_name(m1)
                   ELSE IF Extracting(o) THEN create_new_out_file(o, m1)
                   ELSE m1
         IN commit_current_frame(o, m2)

\* case CCTX_TRACK_STARTING
ContextTrackStarting(o, m) ==
    IF ~we_have_signal(m.st)
    THEN [leadin_buf_purge(o, m) EXCEPT !.st.cut_context = "CCTX_SILENCE"]
    ELSE IF m.st.time_to_live > 0
    THEN [leadin_buf_add(o, m) EXCEPT !.st.time_to_live = m.st.time_to_live - 1]
    ELSE LET m1 == [m EXCEPT !.st.cut_context = "CCTX_TRACK",
                             !.gh.events = Append(@, TrackBegin(m))]
             m2 == IF Logging(o) THEN fetch_next_track_name(m1)
                   ELSE IF Extracting(o) THEN create_new_out_file(o, m1)
                   ELSE m1
         IN commit_current_frame(o, m2)

\* case CCTX_TRACK_ENDING with the track number left alone at the end of the
\* track.
ContextTrackEndingSameNumber(o, m) ==
    LET m1 == commit_current_frame(o, m)
    IN IF we_have_signal(m1.st)
       THEN [m1 EXCEPT !.st.cut_context = "CCTX_TRACK"]
       ELSE IF m1.st.time_to_live > 0
       THEN [m1 EXCEPT !.st.time_to_live = m1.st.time_to_live - 1]
       ELSE [force_end_of_track(o, m1) EXCEPT !.st.cut_context = "CCTX_SILENCE"]

\* case CCTX_TRACK_ENDING
ContextTrackEnding(o, m) ==
    LET m1 == commit_current_frame(o, m)
    IN IF we_have_signal(m1.st)
       THEN [m1 EXCEPT !.st.cut_context = "CCTX_TRACK"]
       ELSE IF m1.st.time_to_live > 0
       THEN [m1 EXCEPT !.st.time_to_live = m1.st.time_to_live - 1]
       ELSE LET m2 == force_end_of_track(o, m1)
            IN [m2 EXCEPT !.st.cut_context = "CCTX_SILENCE",
                          !.st.cur_track_num = m2.st.cur_track_num + 1]

\* The lockout test of case CCTX_TRACK.
LockoutOver(st) == st.cur_frame_pos >= st.cur_track_start + st.min_track_len

\* case CCTX_TRACK without CCTX_TRACK_ENDING: the first silence verdict past
\* the lockout ends the track.
ContextTrackNoHysteresis(o, m) ==
    LET m1 == commit_current_frame(o, m)
    IN IF ~we_have_signal(m1.st) /\ LockoutOver(m1.st)
       THEN LET m2 == force_end_of_track(o, m1)
            IN [m2 EXCEPT !.st.cut_context = "CCTX_SILENCE",
                          !.st.cur_track_num = m2.st.cur_track_num + 1]
       ELSE m1

\* case CCTX_TRACK without the lockout test.
ContextTrackNoLockout(o, m) ==
    LET m1 == commit_current_frame(o, m)
    IN IF ~we_have_signal(m1.st)
       THEN [m1 EXCEPT !.st.cut_context = "CCTX_TRACK_ENDING",
                       !.st.time_to_live = m1.st.min_silence_len]
       ELSE m1

\* case CCTX_TRACK with the countdown of an earlier silence run resumed:
\* time_to_live is left as it was on the way to CCTX_TRACK_ENDING.
ContextTrackResumesDwell(o, m) ==
    LET m1 == commit_current_frame(o, m)
    IN IF ~we_have_signal(m1.st) /\ LockoutOver(m1.st)
       THEN [m1 EXCEPT !.st.cut_context = "CCTX_TRACK_ENDING"]
       ELSE m1

\* case CCTX_TRACK
ContextTrack(o, m) ==
    LET m1 == commit_current_frame(o, m)
    IN IF ~we_have_signal(m1.st) /\ LockoutOver(m1.st)
       THEN [m1 EXCEPT !.st.cut_context = "CCTX_TRACK_ENDING",
                       !.st.time_to_live = m1.st.min_silence_len]
       ELSE m1

\* update_context
update_context(o, m) ==
    CASE m.st.cut_context = "CCTX_SILENCE" -> ContextSilence(o, m)
      [] m.st.cut_context = "CCTX_TRACK_STARTING" -> ContextTrackStarting(o, m)
      [] m.st.cut_context = "CCTX_TRACK_ENDING" -> ContextTrackEnding(o, m)
      [] m.st.cut_context = "CCTX_TRACK" -> ContextTrack(o, m)

\* ------------------------------------------------------------------------
\* Frame source (fetch_next_frame)
\* ------------------------------------------------------------------------
\* What sf_readf_double of one frame can return: a frame (rdcnt = 1) while
\* the file has one, nothing (rdcnt = 0) at its end.
EndOfFile(n) == [rdcnt |-> 0, frame |-> ZeroFrame(n)]

\* An input file whose frames are known is a sequence of stretches, each
\* either loud (every sample Loud) or digital silence, with a length in
\* frames.
RECURSIVE FileLen(_)
FileLen(content) ==
    IF content = << >> THEN 0 ELSE Head(content).len + FileLen(Tail(content))

\* Frame n (from 0) of such a file on c channels.
RECURSIVE FrameAt(_, _, _)
FrameAt(content, n, c) ==
    IF n < Head(content).len
    THEN [k \in Channels(c) |-> IF Head(content).loud THEN Loud ELSE 0]
    ELSE FrameAt(Tail(content), n - Head(content).len, c)

ReadOutcomes(o, in_file) ==
    LET n == in_file.pos - o.start_frame_idx
    IN IF in_file.known
       THEN IF n < FileLen(in_file.content)
            THEN {[rdcnt |-> 1, frame |-> FrameAt(in_file.content, n, o.channels)]}
            ELSE {EndOfFile(o.channels)}
       ELSE IF in_file.at_end \/ n >= in_file.max_frames
            THEN {EndOfFile(o.channels)}
            ELSE {[rdcnt |-> 1, frame |-> f] : f \in InputFrames(o.channels)}
                   \cup {EndOfFile(o.channels)}

\* The slot fetch_next_frame fills is the tail's; next_idx is the input index
\* of the frame that goes there and raw the frame as the source delivers it.
PutTail(m, frame) ==
    [m EXCEPT !.st.main_buf[m.st.main_buf_tail] = frame,
              !.gh.ring_idx[m.st.main_buf_tail] = m.gh.next_idx,
              !.gh.ring_raw[m.st.main_buf_tail] = frame,
              !.gh.next_idx = m.gh.next_idx + 1]

\* The first branch of fetch_next_frame with frames_remaining left alone by a
\* read that returns a frame.
FetchReadNoCount(o, m, rd) ==
    LET left == m.st.frames_remaining - 1
    IN IF rd.rdcnt = 0
       THEN [PutTail(m, ZeroFrame(m.st.numchannels)) EXCEPT
               !.st.in_eof = TRUE,
               !.st.frames_remaining =
                   IF m.st.ra_frame_cnt < left THEN m.st.ra_frame_cnt ELSE left,
               !.io.in_file.at_end = TRUE]
       ELSE [PutTail(m, rd.frame) EXCEPT
               !.st.frames_read_ttl = m.st.frames_read_ttl + 1,
               !.io.in_file.pos = m.io.in_file.pos + 1]

\* The first branch of fetch_next_frame with frames_remaining left at its
\* count when the codec reports the end of the input.
FetchReadNoClamp(o, m, rd) ==
    LET left == m.st.frames_remaining - 1
    IN IF rd.rdcnt = 0
       THEN [PutTail(m, ZeroFrame(m.st.numchannels)) EXCEPT
               !.st.in_eof = TRUE,
               !.st.frames_remaining = left,
               !.io.in_file.at_end = TRUE]
       ELSE [PutTail(m, rd.frame) EXCEPT
               !.st.frames_remaining = left,
               !.st.frames_read_ttl = m.st.frames_read_ttl + 1,
               !.io.in_file.pos = m.io.in_file.pos + 1]

\* The first branch of fetch_next_frame: a read is attempted; rd is what the
\* codec returned.
FetchRead(o, m, rd) ==
    LET left == m.st.frames_remaining - 1
    IN IF rd.rdcnt = 0
       THEN [PutTail(m, ZeroFrame(m.st.numchannels)) EXCEPT
               !.st.in_eof = TRUE,
               !.st.frames_remaining =
                   IF m.st.ra_frame_cnt < left THEN m.st.ra_frame_cnt ELSE left,
               !.io.in_file.at_end = TRUE]
       ELSE [PutTail(m, rd.frame) EXCEPT
               !.st.frames_remaining = left,
               !.st.frames_read_ttl = m.st.frames_read_ttl + 1,
               !.io.in_file.pos = m.io.in_file.pos + 1]

\* The second branch: the overshoot is padded with silence.
FetchPad(m) ==
    [PutTail(m, ZeroFrame(m.st.numchannels)) EXCEPT
       !.st.frames_remaining =
           IF m.st.frames_remaining > 0 THEN m.st.frames_remaining - 1
           ELSE m.st.frames_remaining,
       !.gh.pads = IF m.st.frames_remaining > 0 THEN m.gh.pads + 1 ELSE m.gh.pads]

\* Whether fetch_next_frame attempts a read.
Reads(st) == ~st.in_eof /\ st.frames_remaining > 0

\* The value fetch_next_frame returns (!eof).
MoreFrames(st) == Reads(st) \/ st.frames_remaining > 0

\* The common tail of fetch_next_frame.
FetchTail(o, m) ==
    LET adv == advance_buf_ptrs([m.st EXCEPT !.cur_frame_pos = m.st.cur_frame_pos + 1])
    IN [m EXCEPT !.st = filter_new_frame(o, adv),
                 !.gh.ring_filt[m.st.main_buf_tail] =
                     [c \in Channels(adv.numchannels) |-> Filtered(o, adv, c)]]

\* fetch_next_frame
fetch_next_frame(o, m, rd) ==
    FetchTail(o, IF Reads(m.st) THEN FetchRead(o, m, rd) ELSE FetchPad(m))

\* The loop condition without the test of the track number.
LoopContinuesNoCeiling(o, more, st) == more

\* The condition of the do-while loop of cutter_loop.
LoopContinues(o, more, st) == more /\ st.cur_track_num <= o.track_num_end

\* The end of cutter_loop without the call of force_end_of_track.
cutter_loop_exit_no_flush(o, m) == m

\* The end of cutter_loop, after the loop.
cutter_loop_exit(o, m) ==
    IF m.st.frames_remaining = 0 THEN force_end_of_track(o, m) ELSE m

\* ------------------------------------------------------------------------
\* Runs of equal verdicts (history)
\* ------------------------------------------------------------------------
\* The run of consecutive ticks with the same verdict that the latest tick
\* belongs to: its verdict, its length (counted up to RunCap), the context
\* the machine was in before its first tick, and what had been output by then.
RunCap(st) == Max(st.min_signal_len, st.min_silence_len) + 2

Outputs(m) ==
    [ rows |-> Len(m.io.cuts), files |-> Len(m.io.out_files),
      names |-> m.io.names_file.pos, events |-> Len(m.gh.events),
      cur_track_num |-> m.st.cur_track_num ]

NoRun(m) == [sig |-> FALSE, len |-> 0, ctx0 |-> "CCTX_SILENCE", out0 |-> Outputs(m)]

NextRun(run, m) ==
    LET v == we_have_signal(m.st)
    IN IF run.len > 0 /\ run.sig = v
       THEN [run EXCEPT !.len = Min(run.len + 1, RunCap(m.st))]
       ELSE [sig |-> v, len |-> 1, ctx0 |-> m.st.cut_context, out0 |-> Outputs(m)]

\* ------------------------------------------------------------------------
\* The program as a state machine
\* ------------------------------------------------------------------------
VARIABLES
    options,   \* options_t, fixed once the command line is parsed
    state,     \* state_t
    io,        \* the files: input, track names, cuts file, per-track files
    gh,        \* history: what each ring slot holds, track begins and ends
    run,       \* history: the current run of equal verdicts
    pc,        \* where main is: "getopt", "usage", "parsed", "loop", "exit",
               \* "done", "fatal"
    parse      \* the locals of parse_options (the raw format parameters)

vars == << options, state, io, gh, run, pc, parse >>

M == [st |-> state, io |-> io, gh |-> gh]

\* An input file whose frames are chosen read by read.
AnyFile == [known |-> FALSE, content |-> << >>, max_frames |-> MaxFrames]

\* Command lines and track names files of the model.
Base == [init_options EXCEPT !.min_signal_period = 50,
                             !.min_silence_period = 50,
                             !.min_track_length = 1]

Extract(o) == [o EXCEPT !.cut_point_action = "CPA_EXTRACT_TRACK"]

\* -i LISTFILE
WithNames(o) == [o EXCEPT !.track_names_file_name = "LISTFILE"]

\* -T A-B
TrackRange(o, a, b) == [o EXCEPT !.track_num_start = a, !.track_num_end = b]

\* -I A-B
FrameRange(o, a, b) == [o EXCEPT !.start_frame_idx = a, !.end_frame_idx = b]

\* -D with offset d on the first channel
DcOffset(o, d) == [o EXCEPT !.dc_offset[0] = d]

\* -H
HighPass(o) == [o EXCEPT !.high_pass_filter_enabled = TRUE]

\* -S with a noise floor that one loud frame in the window does not exceed.
HighFloor(o) == [o EXCEPT !.noise_floor_sq = (Loud * Loud + 1) \div 2]

ListFile == << "Alpha", "Beta", "Gamma" >>

Scenarios ==
    { [o |-> Extract(Base), lines |-> << >>, file |-> AnyFile],
      [o |-> TrackRange(WithNames(HighFloor(Base)), 2, 2), lines |-> ListFile,
       file |-> AnyFile],
      [o |-> TrackRange(Base, 2, 2), lines |-> << >>, file |-> AnyFile],
      [o |-> TrackRange(WithNames(HighFloor(Extract(Base))), 1, 1), lines |-> ListFile,
       file |-> AnyFile],
      [o |-> FrameRange(Base, 2, MaxFrames - 2), lines |-> << >>, file |-> AnyFile],
      [o |-> DcOffset(Extract(Base), 1), lines |-> << >>, file |-> AnyFile],
      [o |-> HighPass(Extract(Base)), lines |-> << >>, file |-> AnyFile] }

\* What the priming read of init_state can return.
PrimeReads(o, file) ==
    LET ra == WindowLen(o) - InitialCentre(WindowLen(o))
    IN IF file.known
       THEN {[i \in 1 .. Min(ra, FileLen(file.content)) |->
                  FrameAt(file.content, i - 1, o.channels)]}
       ELSE UNION { [1 .. n -> InputFrames(o.channels)] : n \in 0 .. Min(ra, file.max_frames) }

InitFrom(scenarios) ==
    \E sc \in scenarios : \E prime \in PrimeReads(sc.o, sc.file) :
    \E lens \in DerivedLens(sc.o) :
        LET m == init_state(sc.o, sc.lines, prime, sc.file, lens)
        IN /\ options = sc.o
           /\ state = m.st
           /\ io = m.io
           /\ gh = m.gh
           /\ run = NoRun(m)
           /\ pc = IF sc.o.task = "TCT_CUTTING" THEN "loop" ELSE "analyse"
           /\ parse = parse_locals

Init == InitFrom(Scenarios)

\* Input files of one or two loud stretches (tracks): silence, a track, a
\* gap of silence, a second track, silence.  Stretches of length 0 are left
\* out.
Stretches(seq) == SelectSeq(seq, LAMBDA r : r.len > 0)

KnownFile(seq) ==
    [ known |-> TRUE, content |-> Stretches(seq), max_frames |-> FileLen(seq) ]

TwoTracks(lead, n1, gap, n2, trail) ==
    KnownFile(<< [loud |-> FALSE, len |-> lead],
                 [loud |-> TRUE, len |-> n1],
                 [loud |-> FALSE, len |-> gap],
                 [loud |-> TRUE, len |-> n2],
                 [loud |-> FALSE, len |-> trail] >>)

\* -n, -s: the minimum signal and silence periods in milliseconds
Periods(o, sig, sil) == [o EXCEPT !.min_signal_period = sig, !.min_silence_period = sil]

TrackFiles(o) ==
    { TwoTracks(lead, MinTrackLen(o) + d1, gap, n2, trail) :
        lead \in {0, 1, 3}, d1 \in {0, 1}, gap \in 1 .. MaxGap,
        n2 \in {0, MinTrackLen(o)}, trail \in {0, MaxGap} }

TrackOptions ==
    { Extract(Base),
      Extract(HighFloor(Base)),
      WithNames(Extract(Periods(Base, 75, 25))),
      Extract(Periods(Base, 20, 50)),
      Extract(HighPass(Base)) }

TrackScenarios ==
    { [o |-> o, lines |-> IF o.track_names_file_name # NULL THEN ListFile ELSE << >>,
       file |-> f] : o \in TrackOptions, f \in UNION { TrackFiles(o) : o \in TrackOptions } }

InitTracks == InitFrom(TrackScenarios)

\* Input files of k tracks after a loud stretch too short to be a track
\* (blip frames long; none when blip is 0), and track names files with and
\* without an empty line.
Repeat(seq, k) == [i \in 1 .. (k * Len(seq)) |-> seq[((i - 1) % Len(seq)) + 1]]

NameFile(o, blip, k) ==
    KnownFile(<< [loud |-> FALSE, len |-> 1],
                 [loud |-> TRUE, len |-> blip],
                 [loud |-> FALSE, len |-> MaxGap] >>
              \o Repeat(<< [loud |-> TRUE, len |-> MinTrackLen(o)],
                           [loud |-> FALSE, len |-> MaxGap] >>, k))

ListFiles == { ListFile, << "Alpha", "", "Gamma" >> }

NameScenarios ==
    { [o |-> TrackRange(WithNames(o), r[1], r[2]), lines |-> l,
       file |-> NameFile(o, blip, k)] :
        o \in {Base, Extract(Base)},
        r \in { << 0, INT_MAX >> } \cup { << a, 9 >> : a \in 2 .. 5 },
        l \in ListFiles, blip \in {0, 1}, k \in 1 .. 3 }

InitNames == InitFrom(NameScenarios)

\* Short input files at sample rates that give RMS windows of 2 to 5 frames,
\* with one channel or two, filtered and not, whole and with a frame range.
ShortFile == [known |-> FALSE, content |-> << >>, max_frames |-> MaxShort]

\* -R, -c (or the header of the input file)
Stream(o, rate, chans) == [o EXCEPT !.samplerate = rate, !.channels = chans]

ShortOptions ==
    { Stream(o, rate, 1) : o \in {Base, Extract(Base)}, rate \in {40, 60, 80, 100} }
    \cup { Stream(Base, 40, 2), Stream(HighFloor(Base), 60, 2),
           Stream(HighFloor(Base), 40, 2),
           HighPass(Stream(Base, 60, 1)),
           DcOffset(Stream(Extract(Base), 80, 1), 1),
           FrameRange(Stream(Base, 60, 1), 1, 4),
           FrameRange(Stream(Extract(Base), 100, 1), 0, 3) }

ShortScenarios == { [o |-> o, lines |-> << >>, file |-> ShortFile] : o \in ShortOptions }

InitShort == InitFrom(ShortScenarios)

Becomes(m) == state' = m.st /\ io' = m.io /\ gh' = m.gh

\* One iteration of the do-while loop of cutter_loop: update_context, then
\* the loop condition (fetch_next_frame, then the track ceiling).  rd is what
\* the codec returns if fetch_next_frame reads.
Iteration(rd) ==
    /\ pc = "loop"
    /\ LET m1 == update_context(options, M)
           m2 == fetch_next_frame(options, m1, rd)
       IN IF m1.io.fatal
          THEN Becomes(m1) /\ pc' = "fatal"
          ELSE /\ Becomes(m2)
               /\ pc' = IF LoopContinues(options, MoreFrames(m1.st), m2.st)
                        THEN "loop" ELSE "exit"
    /\ run' = NextRun(run, M)
    /\ UNCHANGED << options, parse >>

\* An iteration in which fetch_next_frame reads a frame.
IterationFrame ==
    /\ Reads(state)
    /\ \E rd \in ReadOutcomes(options, io.in_file) : rd.rdcnt = 1 /\ Iteration(rd)

\* An iteration in which fetch_next_frame finds the end of the input file.
IterationEndOfFile ==
    /\ Reads(state)
    /\ EndOfFile(state.numchannels) \in ReadOutcomes(options, io.in_file)
    /\ Iteration(EndOfFile(state.numchannels))

\* An iteration in which fetch_next_frame pads.
IterationPadding ==
    /\ ~Reads(state)
    /\ Iteration(EndOfFile(state.numchannels))

\* cutter_loop after the loop, and the return from main.
Exit ==
    /\ pc = "exit"
    /\ Becomes(cutter_loop_exit(options, M))
    /\ pc' = "done"
    /\ UNCHANGED << options, run, parse >>

\* ------------------------------------------------------------------------
\* Option parsing (parse_options) as steps of main
\* ------------------------------------------------------------------------
\* Before init_state the program state, the files and the history are not
\* set up.
NotStarted == [started |-> FALSE]

\* main after init_options, at the first call of getopt_long.
InitOptions ==
    /\ options = init_options
    /\ state = NotStarted
    /\ io = NotStarted
    /\ gh = NotStarted
    /\ run = NotStarted
    /\ pc = "getopt"
    /\ parse = parse_locals

\* One pass of the loop of parse_options has handled an option: r is what
\* its case left of the options and whether it terminated the program, ps
\* the locals.
OptionHandled(r, ps) ==
    /\ options' = r.o
    /\ parse' = ps
    /\ pc' = IF r.fatal THEN "usage" ELSE "getopt"
    /\ UNCHANGED << state, io, gh, run >>

\* The characters option arguments are made of, and the arguments of the
\* range options.
RangeChars == {"0", "1", "2", "-", " ", "x"}
RangeArgs == UNION { [1 .. n -> RangeChars] : n \in 0 .. MaxArgLen }

\* case 'T'
ParseTrackRange ==
    /\ pc = "getopt"
    /\ \E arg \in RangeArgs : OptionHandled(parse_track_range(options, arg), parse)

\* case 'I'
ParseFrameRange ==
    /\ pc = "getopt"
    /\ \E arg \in RangeArgs : OptionHandled(parse_frame_range(options, arg), parse)

\* The operands left on the command line after the options.
Operands == { << >>, <<"input.wav">>, <<"-">>, <<"a.wav", "b.wav">> }

\* getopt_long returns -1: the operands and the raw parameters are checked
\* and parse_options returns.
ParseEnd ==
    /\ pc = "getopt"
    /\ \E operands \in Operands :
          LET r == parse_options_end(options, parse, operands)
          IN /\ options' = r.o
             /\ pc' = IF r.fatal THEN "usage" ELSE "parsed"
    /\ UNCHANGED << state, io, gh, run, parse >>

\* Command lines made of range options.
NextRanges == ParseTrackRange \/ ParseFrameRange \/ ParseEnd

SpecRanges == InitOptions /\ [][NextRanges]_vars

\* Arguments of the numeric options of raw input: decimal numbers, an
\* octal number, a number followed by other characters, no number.
RateArgs == { <<"4", "0">>, <<"6", "0">>, <<"0">>, <<"x">> }
ChannelArgs == { <<"1">>, <<"2">>, <<"8">>, <<"9">>, <<"-", "1">> }
BitsArgs ==
    { <<"8">>, <<"1", "6">>, <<"2", "4">>, <<"3", "2">>, <<"6", "4">>,
      <<"1", "2">>, <<"0">>, <<"0", "1", "0">>, <<"1", "6", "x">>, << >> }

\* case 'r'
ParseRaw ==
    /\ pc = "getopt"
    /\ OptionHandled([fatal |-> FALSE, o |-> [options EXCEPT !.input_is_raw = TRUE]],
                     parse)

\* case 'R'
ParseRate ==
    /\ pc = "getopt"
    /\ \E arg \in RateArgs :
          LET r == parse_positive_int_arg(arg)
          IN IF r.fatal
             THEN OptionHandled([fatal |-> TRUE, o |-> options], parse)
             ELSE OptionHandled([fatal |-> FALSE, o |-> [options EXCEPT !.samplerate = r.n]],
                                [parse EXCEPT !.raw_rate_given = TRUE])

\* case 'c'
ParseChannels ==
    /\ pc = "getopt"
    /\ \E arg \in ChannelArgs :
          LET r == parse_positive_int_arg(arg)
          IN IF r.fatal
             THEN OptionHandled([fatal |-> TRUE, o |-> options], parse)
             ELSE OptionHandled([fatal |-> r.n > MAX_CHANNELS,
                                 o |-> [options EXCEPT !.channels = r.n]],
                                [parse EXCEPT !.raw_channels_given = TRUE])

\* case 'b'
ParseBits ==
    /\ pc = "getopt"
    /\ \E arg \in BitsArgs :
          LET r == parse_positive_int_arg(arg)
          IN IF r.fatal
             THEN OptionHandled([fatal |-> TRUE, o |-> options], parse)
             ELSE OptionHandled([fatal |-> r.n \notin {8, 16, 24, 32, 64}, o |-> options],
                                [parse EXCEPT !.raw_bits = r.n, !.raw_bits_given = TRUE])

\* case 'x'
ParseSigned ==
    /\ pc = "getopt"
    /\ OptionHandled([fatal |-> FALSE, o |-> options],
                     [parse EXCEPT !.raw_is_signed = TRUE, !.raw_is_fp = FALSE,
                                   !.raw_sign_given = TRUE])

\* case 'u'
ParseUnsigned ==
    /\ pc = "getopt"
    /\ OptionHandled([fatal |-> FALSE, o |-> options],
                     [parse EXCEPT !.raw_is_signed = FALSE, !.raw_is_fp = FALSE,
                                   !.raw_sign_given = TRUE])

\* case 'X'
ParseFloatingPoint ==
    /\ pc = "getopt"
    /\ OptionHandled([fatal |-> FALSE, o |-> options],
                     [parse EXCEPT !.raw_is_fp = TRUE, !.raw_sign_given = TRUE])

\* case 'E'
ParseBigEndian ==
    /\ pc = "getopt"
    /\ OptionHandled([fatal |-> FALSE, o |-> options],
                     [parse EXCEPT !.raw_is_little_endian = FALSE,
                                   !.raw_endian_given = TRUE])

\* case 'e'
ParseLittleEndian ==
    /\ pc = "getopt"
    /\ OptionHandled([fatal |-> FALSE, o |-> options],
                     [parse EXCEPT !.raw_is_little_endian = TRUE,
                                   !.raw_endian_given = TRUE])

\* Command lines made of the options of raw input.
NextRaw ==
    \/ ParseRaw
    \/ ParseRate
    \/ ParseChannels
    \/ ParseBits
    \/ ParseSigned
    \/ ParseUnsigned
    \/ ParseFloatingPoint
    \/ ParseBigEndian
    \/ ParseLittleEndian
    \/ ParseEnd

SpecRaw == InitOptions /\ [][NextRaw]_vars

\* Arguments of -l, -s and -n: small numbers, the largest numbers whose
\* product with a sample rate of the model fits an int and the numbers after
\* them, the largest int, and arguments that are not positive numbers.
PeriodArgs ==
    { <<"1">>,
      <<"5", "0">>,
      <<"1", "0", "0", "0">>,
      <<"2", "1", "4", "7", "4", "8", "3", "6">>,
      <<"2", "1", "4", "7", "4", "8", "3", "7">>,
      <<"5", "3", "6", "8", "7", "0", "9", "1">>,
      <<"5", "3", "6", "8", "7", "0", "9", "2">>,
      <<"2", "1", "4", "7", "4", "8", "3", "6", "4", "7">>,
      <<"0">>,
      <<"x">> }

\* case 'l'
ParseMinTrackLength ==
    /\ pc = "getopt"
    /\ \E arg \in PeriodArgs :
          LET r == parse_positive_int_arg(arg)
          IN OptionHandled([fatal |-> r.fatal,
                            o |-> [options EXCEPT !.min_track_length = r.n]], parse)

\* case 's'
ParseMinSilencePeriod ==
    /\ pc = "getopt"
    /\ \E arg \in PeriodArgs :
          LET r == parse_positive_int_arg(arg)
          IN OptionHandled([fatal |-> r.fatal,
                            o |-> [options EXCEPT !.min_silence_period = r.n]], parse)

\* case 'n'
ParseMinSignalPeriod ==
    /\ pc = "getopt"
    /\ \E arg \in PeriodArgs :
          LET r == parse_positive_int_arg(arg)
          IN OptionHandled([fatal |-> r.fatal,
                            o |-> [options EXCEPT !.min_signal_period = r.n]], parse)

\* The sample rates in the header of the input file.
HeaderRates == {40, 100}

\* The input file of a start-up: a few frames of digital silence.
SilentFile == KnownFile(<< [loud |-> FALSE, len |-> MaxShort] >>)

\* main calls init_state once parse_options has returned: the input file is
\* opened (its header gives the sample rate), the buffers are primed and
\* the lengths of cutting mode derived.
Startup ==
    /\ pc = "parsed"
    /\ \E rate \in HeaderRates :
          LET o == Stream(options, rate, 1)
          IN \E prime \in PrimeReads(o, SilentFile) : \E lens \in DerivedLens(o) :
                LET m == init_state(o, << >>, prime, SilentFile, lens)
                IN /\ options' = o
                   /\ Becomes(m)
                   /\ run' = NoRun(m)
                   /\ pc' = "loop"
    /\ UNCHANGED parse

\* Command lines made of the period options, up to the entry of the cutter
\* loop.
NextPeriods ==
    \/ ParseMinTrackLength
    \/ ParseMinSilencePeriod
    \/ ParseMinSignalPeriod
    \/ ParseEnd
    \/ Startup

SpecPeriods == InitOptions /\ [][NextPeriods]_vars

\* ------------------------------------------------------------------------
\* Analysis mode (analyser_loop)
\* ------------------------------------------------------------------------
\* analyse_new_frame: one RMS value per channel is added to rms_ttl.  The
\* statistics themselves are floating-point values the model does not
\* carry; it counts the values added.
analyse_new_frame(m) == [m EXCEPT !.gh.analysed = m.gh.analysed + 1]

\* print_analysis: the average RMS is rms_ttl over frames_proc_ttl, the DC
\* offset hpf_rej_ttl over frames_read_ttl.
print_analysis(m) ==
    [m EXCEPT !.gh.printed = [avg_rms_divisor |-> m.st.frames_proc_ttl,
                              dc_offset_divisor |-> m.st.frames_read_ttl]]

\* One iteration of the do-while loop of analyser_loop: analyse_new_frame,
\* then fetch_next_frame as the loop condition.
AnalyserIteration(rd) ==
    /\ pc = "analyse"
    /\ LET m1 == analyse_new_frame(M)
       IN /\ Becomes(fetch_next_frame(options, m1, rd))
          /\ pc' = IF MoreFrames(m1.st) THEN "analyse" ELSE "print"
    /\ UNCHANGED << options, run, parse >>

AnalyseFrame ==
    /\ Reads(state)
    /\ \E rd \in ReadOutcomes(options, io.in_file) : rd.rdcnt = 1 /\ AnalyserIteration(rd)

AnalyseEndOfFile ==
    /\ Reads(state)
    /\ EndOfFile(state.numchannels) \in ReadOutcomes(options, io.in_file)
    /\ AnalyserIteration(EndOfFile(state.numchannels))

AnalysePadding ==
    /\ ~Reads(state)
    /\ AnalyserIteration(EndOfFile(state.numchannels))

\* analyser_loop after the loop, and the return from main.
PrintAnalysis ==
    /\ pc = "print"
    /\ Becomes(print_analysis(M))
    /\ pc' = "done"
    /\ UNCHANGED << options, run, parse >>

\* -a
Analysis(o) == [o EXCEPT !.task = "TCT_ANALYSIS"]

AnalysisOptions ==
    { Analysis(Stream(Base, rate, 1)) : rate \in {40, 60, 80, 100} }
    \cup { Analysis(Stream(Base, 40, 2)),
           Analysis(HighPass(Stream(Base, 60, 1))),
           Analysis(FrameRange(Stream(Base, 100, 1), 1, 4)) }

AnalysisScenarios ==
    { [o |-> o, lines |-> << >>, file |-> ShortFile] : o \in AnalysisOptions }

InitAnalysis == InitFrom(AnalysisScenarios)

NextAnalysis == AnalyseFrame \/ AnalyseEndOfFile \/ AnalysePadding \/ PrintAnalysis

\* Analysis runs on short input files.
SpecAnalysis == InitAnalysis /\ [][NextAnalysis]_vars

Next == IterationFrame \/ IterationEndOfFile \/ IterationPadding \/ Exit

Spec == Init /\ [][Next]_vars

\* Extraction runs on input files made of tracks.
SpecTracks == InitTracks /\ [][Next]_vars

\* Runs on short input files with RMS windows of several lengths.
SpecShort == InitShort /\ [][Next]_vars

\* Runs with a track names file on input files made of tracks.
SpecNames == InitNames /\ [][Next]_vars

\* Runs to completion.  The program is sequential, so the loop body and
\* the return from cutter_loop are taken whenever they can be: weak
\* fairness of Next.  A step of Next is possible exactly when pc is "loop"
\* (an iteration: a frame, the end of the file or padding) or "exit", so
\* WF_vars(Next) is written with ENABLED <<Next>>_vars as that guard.
InitTerminates == InitShort \/ InitNames

Running == pc \in {"loop", "exit"}

FairNext == []<>(~Running) \/ []<><<Next>>_vars

SpecTerminates == InitTerminates /\ [][Next]_vars /\ FairNext

\* ------------------------------------------------------------------------
\* Properties
\* ------------------------------------------------------------------------
\* The world after the step.
MNext == [st |-> state', io |-> io', gh |-> gh']

\* A tick of the cutter loop (one pass of update_context) is taken.
Tick == pc = "loop"

\* C1 (onset hysteresis): when a run of signal verdicts that began in
\* CCTX_SILENCE and is shorter than min_signal_len is followed by a silence
\* verdict, the machine is back in CCTX_SILENCE after that tick and nothing
\* has been output since the run began: no cuts-file row, no output file,
\* no track name consumed.
C1_OnsetHysteresis ==
    [][ ( /\ Tick
          /\ run.sig /\ run.ctx0 = "CCTX_SILENCE"
          /\ run.len >= 1 /\ run.len < state.min_signal_len
          /\ ~we_have_signal(state) )
        => ( /\ state'.cut_context = "CCTX_SILENCE"
             /\ Outputs(MNext).rows = run.out0.rows
             /\ Outputs(MNext).files = run.out0.files
             /\ Outputs(MNext).names = run.out0.names
             /\ Outputs(MNext).events = run.out0.events ) ]_vars

\* A signal run of one tick (time_to_live still at its reload value) was cut
\* short by a silence verdict, with a track names file open.
C1_Witness ==
    /\ pc = "loop"
    /\ state.min_signal_len >= 2
    /\ ~run.sig /\ run.len = 1 /\ run.ctx0 = "CCTX_TRACK_STARTING"
    /\ state.time_to_live = state.min_signal_len - 1
    /\ state.cut_context = "CCTX_SILENCE"
    /\ state.track_names_file # NULL

\* C2 (gap hysteresis): when a run of silence verdicts that began in
\* CCTX_TRACK and is shorter than min_silence_len is followed by a signal
\* verdict, the machine is in CCTX_TRACK after that tick and the track has
\* not been ended since the run began: no row, no file closed, cur_track_num
\* unchanged.
C2_GapHysteresis ==
    [][ ( /\ Tick
          /\ ~run.sig /\ run.ctx0 = "CCTX_TRACK"
          /\ run.len >= 1 /\ run.len < state.min_silence_len
          /\ we_have_signal(state) )
        => ( /\ state'.cut_context = "CCTX_TRACK"
             /\ Outputs(MNext).rows = run.out0.rows
             /\ Outputs(MNext).events = run.out0.events
             /\ state'.cur_track_num = run.out0.cur_track_num
             /\ (Extracting(options) =>
                    /\ state'.out_file # 0
                    /\ io'.out_files[state'.out_file].open) ) ]_vars

\* Past the lockout, a silence run of one tick (time_to_live still at its
\* reload value) was followed by a signal verdict.
C2_Witness ==
    /\ pc = "loop"
    /\ state.min_silence_len >= 2
    /\ run.sig /\ run.len = 1 /\ run.ctx0 = "CCTX_TRACK_ENDING"
    /\ state.time_to_live = state.min_silence_len
    /\ state.cut_context = "CCTX_TRACK"

\* The cut-log rows and the output files that the step ended.
RowsWritten == { i \in DOMAIN io'.cuts : i > Len(io.cuts) }
FilesClosed ==
    { k \in DOMAIN io.out_files : io.out_files[k].open /\ ~io'.out_files[k].open }

\* The number of track ends that reached the sink.
Ends(g) == Cardinality({ i \in DOMAIN g.events : g.events[i].ev = "TRACK_END" })

\* C3 (lockout), as amended: no tick of the state machine ends a track (writes
\* a row, closes a file) at a centre frame index smaller than
\* cur_track_start + min_track_len, however much silence the lockout window
\* holds.  (The end that cutter_loop forces when the input runs out is not
\* held back by the lockout.)
C3_Lockout ==
    [][ Tick =>
          /\ \A i \in RowsWritten :
                io'.cuts[i].end >= io'.cuts[i].start + state.min_track_len
          /\ \A k \in FilesClosed :
                io'.out_files[k].closed_at
                    >= io'.out_files[k].start + state.min_track_len ]_vars

\* A track was ended by the state machine at the first index the lockout and
\* the silence hysteresis allow.
C3_Witness ==
    /\ pc = "loop"
    /\ Len(io.cuts) = 1
    /\ io.cuts[1].end =
         io.cuts[1].start + state.min_track_len + state.min_silence_len + 1

\* C3 as stated: no track at all ends (row written, file closed) below
\* cur_track_start + min_track_len.
C3_NoEarlyEnd ==
    /\ \A i \in DOMAIN io.cuts :
          io.cuts[i].end >= io.cuts[i].start + state.min_track_len
    /\ \A k \in DOMAIN io.out_files :
          ~io.out_files[k].open =>
             io.out_files[k].closed_at >= io.out_files[k].start + state.min_track_len

\* C4 (begin/end balance): track begins and track ends alternate, beginning
\* with a begin, every end is the end of the track begun before it, and at
\* shutdown every begin has had its end.
C4_Balance ==
    /\ \A i \in DOMAIN gh.events :
          /\ gh.events[i].ev = IF i % 2 = 1 THEN "TRACK_BEGIN" ELSE "TRACK_END"
          /\ i % 2 = 0 => gh.events[i].num = gh.events[i - 1].num
    /\ pc = "done" => Len(gh.events) % 2 = 0

\* Shutdown after two tracks, the second one ended by the end of the input.
C4_Witness ==
    /\ pc = "done"
    /\ Len(gh.events) = 4
    /\ state.cut_context \in {"CCTX_TRACK", "CCTX_TRACK_ENDING"}

\* C5 (track numbering), as amended: a tick of the state machine raises
\* cur_track_num by one when it ends a track and leaves it alone otherwise;
\* the end forced by cutter_loop at the end of the input leaves it alone.
C5_TrackNumbering ==
    [][ /\ Tick => state'.cur_track_num - state.cur_track_num = Ends(gh') - Ends(gh)
        /\ Tick => Ends(gh') - Ends(gh) \in {0, 1}
        /\ pc = "exit" => state'.cur_track_num = state.cur_track_num ]_vars

\* Shutdown after one track ended by silence and one ended by the end of the
\* input: two ends, cur_track_num raised once.
C5_Witness ==
    /\ pc = "done"
    /\ Ends(gh) = 2
    /\ state.cur_track_num = gh.first_track_num + 1

\* C5 as stated: at shutdown cur_track_num minus its initial value is the
\* number of track ends, the forced one included.
C5_OncePerEnd ==
    pc = "done" => state.cur_track_num - gh.first_track_num = Ends(gh)

\* C6 (terminal flush): when the cutter loop is left with the machine in
\* CCTX_TRACK or CCTX_TRACK_ENDING, force_end_of_track ends the track in
\* flight: its row is written, or its file is closed.
C6_TerminalFlush ==
    [][ ( pc = "exit" /\ state.cut_context \in {"CCTX_TRACK", "CCTX_TRACK_ENDING"} )
        => /\ Ends(gh') = Ends(gh) + 1
           /\ gh'.events[Len(gh'.events)].num = state.cur_track_num
           /\ Logging(options) =>
                 /\ Len(io'.cuts) = Len(io.cuts) + 1
                 /\ io'.cuts[Len(io'.cuts)].start = state.cur_track_start
                 /\ io'.cuts[Len(io'.cuts)].end = state.cur_frame_pos
           /\ Extracting(options) =>
                 /\ state.out_file # 0
                 /\ FilesClosed = {state.out_file}
                 /\ state'.out_file = 0 ]_vars

\* Shutdown in CCTX_TRACK_ENDING, the row of the track in flight written.
C6_Witness ==
    /\ pc = "done"
    /\ state.cut_context = "CCTX_TRACK_ENDING"
    /\ Len(io.cuts) = 1
    /\ io.cuts[1].end = state.cur_frame_pos

\* C7 (track ceiling): no track with a number above track_num_end begins or
\* ends, and the tick that leaves cur_track_num above track_num_end is the
\* last one.
C7_TrackCeiling ==
    /\ [](\A i \in DOMAIN gh.events : gh.events[i].num <= options.track_num_end)
    /\ [](\A i \in DOMAIN io.cuts : io.cuts[i].track_num <= options.track_num_end)
    /\ [](\A k \in DOMAIN io.out_files :
             io.out_files[k].track_num <= options.track_num_end)
    /\ [][ (Tick /\ state'.cur_track_num > options.track_num_end)
           => pc' = "exit" ]_vars

\* The loop was left because track track_num_end had ended, with input left.
C7_Witness ==
    /\ pc = "done"
    /\ state.cur_track_num > options.track_num_end
    /\ ~state.in_eof /\ state.frames_remaining > 0
    /\ Len(gh.events) = 2
    /\ gh.events[2].num = options.track_num_end

\* C8 (track floor): with --track-range=A-B the first track that begins has
\* number A.
C8_TrackFloor ==
    (options.track_num_start >= 1 /\ Len(gh.events) >= 1)
        => gh.events[1].num = options.track_num_start

\* The tracks of an input file made of tracks, and the least length of its
\* tracks and of the silence between two of them.
TrackCount(content) ==
    Cardinality({ i \in DOMAIN content : content[i].loud })

GapsAtLeast(content, g) ==
    \A i \in DOMAIN content :
        (~content[i].loud /\ i > 1 /\ i < Len(content)) => content[i].len >= g

TracksAtLeast(content, n) ==
    \A i \in DOMAIN content : content[i].loud => content[i].len >= n

\* The filter leaves the samples as they are: high-pass filter off, every DC
\* offset zero.
Unfiltered ==
    /\ ~options.high_pass_filter_enabled
    /\ \A c \in Channels(state.numchannels) : options.dc_offset[c] = 0

\* What C9 says of the output files: the k-th file holds the frames of the
\* k-th segment from its first frame on, once each and in input order, as
\* filter_new_frame left them, lead-in frames included, and is closed.
FilesHoldSegments ==
    \A k \in DOMAIN io.out_files :
        LET f == io.out_files[k]
        IN /\ ~f.open
           /\ f.contig /\ f.filt_same
           /\ f.first = f.start
           /\ f.count = f.last - f.first + 1
           /\ f.count > state.min_signal_len
           /\ k > 1 => f.start > io.out_files[k - 1].last

Skipped == Min(Max(options.track_num_start - 1, 0), Len(io.names_file.lines))

Begins(g) == Cardinality({ i \in DOMAIN g.events : g.events[i].ev = "TRACK_BEGIN" })

NameOfTrack(k) ==
    IF Skipped + k <= Len(io.names_file.lines)
    THEN io.names_file.lines[Skipped + k] ELSE ""

\* C11 (track names): names are consumed in order, one per confirmed track:
\* the lines consumed are the skipped ones plus one per track begun (a
\* rejected onset consumes none), the k-th track carries the k-th remaining
\* line, and a track that begins after the file is exhausted is numbered
\* and carries no name.
C11_NamesInOrder ==
    options.track_names_file_name # NULL =>
        /\ io.names_file.pos = Min(Skipped + Begins(gh), Len(io.names_file.lines))
        /\ \A i \in DOMAIN io.cuts : io.cuts[i].name = NameOfTrack(i)
        /\ \A k \in DOMAIN io.out_files :
              io.out_files[k].name =
                 IF NameOfTrack(k) # ""
                 THEN [track_name |-> NameOfTrack(k), number |-> 0]
                 ELSE [track_name |-> "", number |-> io.out_files[k].track_num]

\* After a rejected onset, three tracks were logged from a names file with
\* one line left: the first carries it, the other two are numbered only.
C11_Witness ==
    /\ pc = "done"
    /\ io.in_file.known
    /\ io.in_file.content[2].loud
    /\ io.in_file.content[2].len < state.min_signal_len
    /\ Len(io.cuts) = 3
    /\ io.cuts[1].name = "Gamma"
    /\ io.cuts[2].name = "" /\ io.cuts[3].name = ""
    /\ io.names_file.pos = 3

\* C12 (sink order): the frames written to the sink have strictly increasing
\* frame indices (within a file each frame follows the one before it, and a
\* file begins after the last frame of the file before it), every emitted
\* track has start <= end, and a track starts strictly after the end of the
\* track emitted before it.
C12_SinkOrder ==
    /\ \A i \in DOMAIN io.cuts :
          /\ io.cuts[i].start <= io.cuts[i].end
          /\ i > 1 => io.cuts[i].start > io.cuts[i - 1].end
    /\ \A k \in DOMAIN io.out_files :
          LET f == io.out_files[k]
          IN /\ f.contig
             /\ f.count > 0 => f.first <= f.last
             /\ ~f.open => f.start <= f.closed_at
             /\ k > 1 => /\ ~io.out_files[k - 1].open
                         /\ f.start > io.out_files[k - 1].closed_at
                         /\ f.count > 0 => f.first > io.out_files[k - 1].last

\* Two tracks were logged, the second one starting on the frame after the
\* end of the first.
C12_Witness ==
    /\ Len(io.cuts) = 2
    /\ io.cuts[2].start = io.cuts[1].end + 1

\* A frame range with a finite end E was given.
RangeEnd == options.end_frame_idx
RangeGiven == options.end_frame_idx < SfCountMax

\* C13 (frame-range bound), as amended: with a frame range S-E, E finite, no
\* centre frame with index greater than E is judged by the state machine or
\* written to a file, no reported track start exceeds E, and no reported
\* track end exceeds E + 1 (the end forced when the range runs out is
\* reported as E + 1).
C13_FrameRange ==
    RangeGiven =>
        /\ pc = "loop" => state.cur_frame_pos <= RangeEnd
        /\ \A i \in DOMAIN io.cuts :
              io.cuts[i].start <= RangeEnd /\ io.cuts[i].end <= RangeEnd + 1
        /\ \A k \in DOMAIN io.out_files :
              /\ io.out_files[k].start <= RangeEnd
              /\ io.out_files[k].last <= RangeEnd
              /\ io.out_files[k].closed_at <= RangeEnd + 1

\* The range ran out, before the file did, with a track in flight: its row
\* reports the end E + 1.
C13_Witness ==
    /\ RangeGiven
    /\ pc = "done"
    /\ ~state.in_eof
    /\ Len(io.cuts) = 1
    /\ io.cuts[1].end = RangeEnd + 1

\* C13 as stated: with the range within the file, no centre frame beyond E
\* is judged and no reported start or end exceeds E.
C13_AsStated ==
    (RangeGiven /\ ~state.in_eof) =>
        /\ pc = "loop" => state.cur_frame_pos <= RangeEnd
        /\ \A i \in DOMAIN io.cuts :
              io.cuts[i].start <= RangeEnd /\ io.cuts[i].end <= RangeEnd

\* The window length W and the read-ahead W - W/2.
W == state.rms_window_len
ReadAhead == W - W \div 2

\* C14 (EOF drain length), as amended: after the call on which the codec
\* first reports the end of the input, fetch_next_frame pads and reports
\* more frames for at most W - W/2 further calls (W/2 rounded up), each
\* delivering a zero-filled frame, and the call after those reports the end;
\* this holds for every window length W >= 2.
C14_DrainLength ==
    /\ [](state.in_eof => gh.pads + state.frames_remaining <= ReadAhead)
    /\ [][ (Tick /\ ~Reads(state) /\ MoreFrames(update_context(options, M).st))
           => /\ gh'.pads = gh.pads + 1
              /\ gh'.ring_raw[state'.main_buf_head]
                    = ZeroFrame(state.numchannels) ]_vars
    /\ [][ (Tick /\ state.in_eof /\ state.frames_remaining = 0)
           => pc' = "exit" /\ gh'.pads = gh.pads ]_vars

\* The input ended under a window of odd length: W - W/2 padding calls,
\* one more than W/2, were made before the end was reported.
C14_Witness ==
    /\ pc = "done"
    /\ state.in_eof
    /\ W % 2 = 1
    /\ gh.pads = ReadAhead
    /\ gh.pads = W \div 2 + 1

\* C14 as stated: at most W/2 padding calls.
C14_AtMostHalf ==
    state.in_eof => gh.pads <= W \div 2

\* C15 (centre lag against the read position): at every tick before the
\* codec has reported the end of the input, the read position of the input
\* is ahead of the centre frame index (cur_frame_pos) by exactly the
\* read-ahead count W - W/2, which is W/2 for even W and W/2 + 1 for odd W;
\* frames_read_ttl counts the frames consumed since the start frame.
C15_CentreLag ==
    (Tick /\ ~io.in_file.at_end)
        => /\ io.in_file.pos - state.cur_frame_pos = ReadAhead
           /\ state.frames_read_ttl = io.in_file.pos - options.start_frame_idx
           /\ state.ra_frame_cnt = ReadAhead

\* A tick past the first on a window of odd length, the input not yet at
\* its end.
C15_Witness ==
    /\ Tick /\ ~io.in_file.at_end
    /\ W % 2 = 1
    /\ state.cur_frame_pos > options.start_frame_idx + 1
    /\ io.in_file.pos - state.cur_frame_pos = W \div 2 + 1

\* C15 as stated: the lag is W/2 for every window length.
C15_AsStated ==
    (Tick /\ ~io.in_file.at_end)
        => io.in_file.pos - state.cur_frame_pos = W \div 2

\* The number of slots from the centre cursor forward to the head cursor.
HeadLead == W - 1 - W \div 2

\* C16 (centre lag against the head): after priming, the head and tail
\* cursors are adjacent modulo W, the centre cursor is W/2 slots ahead of the
\* tail and W - 1 - W/2 slots behind the head, the centre slot holds frame
\* cur_frame_pos and the head slot holds frame cur_frame_pos + W - 1 - W/2
\* (W/2 for odd W, W/2 - 1 for even W); the sq cursors move with the main
\* ones.
C16_HeadLead ==
    /\ state.main_buf_tail = (state.main_buf_head + 1) % W
    /\ state.main_buf_cen = (state.main_buf_tail + W \div 2) % W
    /\ state.main_buf_head = (state.main_buf_cen + HeadLead) % W
    /\ gh.ring_idx[state.main_buf_cen] = state.cur_frame_pos
    /\ gh.ring_idx[state.main_buf_head] = state.cur_frame_pos + HeadLead
    /\ state.sq_buf_head = state.main_buf_head
    /\ state.sq_buf_cen = state.main_buf_cen
    /\ state.sq_buf_tail = state.main_buf_tail

\* A tick on a window of even length after the cursors have gone round the
\* ring at least once.
C16_Witness ==
    /\ Tick
    /\ W % 2 = 0
    /\ state.cur_frame_pos >= options.start_frame_idx + W
    /\ gh.ring_idx[state.main_buf_head] = state.cur_frame_pos + W \div 2 - 1

\* C16 as stated: the head frame is W/2 frames ahead of the centre frame.
C16_AsStated ==
    Tick => /\ gh.ring_idx[state.main_buf_head] = state.cur_frame_pos + W \div 2
            /\ state.main_buf_head = (state.main_buf_cen + W \div 2) % W

\* The sum of the squares stored for channel c in slots 0 .. k - 1 of the sq
\* ring.
RECURSIVE SqSum(_, _)
SqSum(c, k) == IF k = 0 THEN 0 ELSE state.sq_buf[k - 1][c] + SqSum(c, k - 1)

\* C17 (running-sum integrity): in the state priming leaves and at every
\* tick after it, steady state and drain alike, x_sq_ttl[c] of every
\* channel c of the stream is the sum of the W squares stored for c in the
\* sq ring, each of them the square of the sample in the same slot of the
\* main ring.
C17_RunningSum ==
    \A c \in Channels(state.numchannels) :
        /\ state.x_sq_ttl[c] = SqSum(c, W)
        /\ \A k \in 0 .. (W - 1) :
               state.sq_buf[k][c] = state.main_buf[k][c] * state.main_buf[k][c]

\* A tick of the drain, the ring gone round at least once, the sq ring
\* holding both squares of signal and zeros.
C17_Witness ==
    /\ Tick
    /\ state.in_eof
    /\ state.cur_frame_pos >= options.start_frame_idx + W
    /\ \E j, k \in 0 .. (W - 1) : state.sq_buf[j][0] > 0 /\ state.sq_buf[k][0] = 0
    /\ state.x_sq_ttl[0] = SqSum(0, W)

\* Channel c has its running sum of squares strictly above the threshold.
AboveFloor(c) == state.x_sq_ttl[c] > state.n_x_nf_sq

\* The state with the running sums of the channels the stream does not have
\* set to v.
WithStaleSums(v) ==
    [state EXCEPT !.x_sq_ttl = [c \in AllChannels |->
        IF c \in Channels(state.numchannels) THEN state.x_sq_ttl[c] ELSE v]]

\* C18 (signal verdict): the verdict of a tick is signal exactly when some
\* channel c with 0 <= c < numchannels has x_sq_ttl[c] strictly above
\* n_x_nf_sq.  A tick in CCTX_SILENCE leaves CCTX_SILENCE exactly on such a
\* verdict, so a window whose sums only reach the threshold is silence; and
\* whatever the sums of the channels at index >= numchannels hold, the
\* verdict is the same.
C18_Verdict ==
    /\ [][ Tick => (run'.sig <=> \E c \in 0 .. (state.numchannels - 1) : AboveFloor(c)) ]_vars
    /\ [][ (Tick /\ state.cut_context = "CCTX_SILENCE")
           => ( state'.cut_context # "CCTX_SILENCE"
                  <=> \E c \in 0 .. (state.numchannels - 1) : AboveFloor(c) ) ]_vars
    /\ []( \A v \in {0, state.n_x_nf_sq, state.n_x_nf_sq + 1} :
              we_have_signal(WithStaleSums(v)) = we_have_signal(state) )

\* A tick in CCTX_SILENCE on a two-channel stream whose window has one
\* channel exactly at the threshold and the other below it, ticks having been
\* taken before: the verdict is silence.
C18_Witness ==
    /\ Tick
    /\ state.numchannels = 2
    /\ state.cut_context = "CCTX_SILENCE"
    /\ state.n_x_nf_sq > 0
    /\ run.len > 0
    /\ \E c \in Channels(2) :
          /\ state.x_sq_ttl[c] = state.n_x_nf_sq
          /\ state.x_sq_ttl[1 - c] < state.n_x_nf_sq
    /\ ~we_have_signal(state)

\* C19 (lead-in buffer): in extraction mode, between ticks, the lead-in
\* buffer holds frames only while the machine is in CCTX_TRACK_STARTING; in
\* CCTX_SILENCE, CCTX_TRACK and CCTX_TRACK_ENDING it is empty.
C19_LeadInEmpty ==
    ( /\ Extracting(options)
      /\ state.cut_context \in {"CCTX_SILENCE", "CCTX_TRACK", "CCTX_TRACK_ENDING"} )
        => state.leadin_buf = << >>

\* The second track of an extraction has just begun: the buffer that held
\* its lead-in is empty and the frames are in the new file.
C19_Witness ==
    /\ Extracting(options)
    /\ Tick
    /\ state.cut_context = "CCTX_TRACK"
    /\ state.min_signal_len > 0
    /\ state.cur_track_num = 2
    /\ state.out_file # 0
    /\ io.out_files[state.out_file].count = state.min_signal_len + 1
    /\ state.leadin_buf = << >>

\* The machine is in a track.
InTrack == state.cut_context \in {"CCTX_TRACK", "CCTX_TRACK_ENDING"}

\* C20 (track start): cur_track_start is set to the centre frame index by
\* the tick that takes the machine from CCTX_SILENCE to CCTX_TRACK_STARTING
\* (the onset) and by no other tick, so in CCTX_TRACK and CCTX_TRACK_ENDING
\* it is the onset of the current track: it lies min_signal_len + 1 frames
\* or more behind cur_frame_pos, and in extraction mode it is the first
\* frame of the open output file.
C20_TrackStart ==
    /\ [][ (Tick /\ state.cut_context = "CCTX_SILENCE"
                 /\ state'.cut_context = "CCTX_TRACK_STARTING")
           => state'.cur_track_start = state.cur_frame_pos ]_vars
    /\ [][ (Tick /\ state.cut_context # "CCTX_SILENCE")
           => state'.cur_track_start = state.cur_track_start ]_vars
    /\ []( InTrack =>
              /\ state.cur_track_start <= state.cur_frame_pos
              /\ state.cur_track_start + state.min_signal_len + 1 <= state.cur_frame_pos
              /\ state.cur_track_start >= options.start_frame_idx
              /\ (Extracting(options) /\ state.out_file # 0 /\ state.min_signal_len > 0)
                    => io.out_files[state.out_file].first = state.cur_track_start )

\* The second track of a file is ending: cur_track_start is its onset, past
\* the end of the first track.
C20_Witness ==
    /\ Tick
    /\ state.cut_context = "CCTX_TRACK_ENDING"
    /\ state.cur_track_num = 2
    /\ Len(io.out_files) = 2
    /\ state.cur_track_start > io.out_files[1].last
    /\ io.out_files[2].first = state.cur_track_start
    /\ state.cur_track_start < state.cur_frame_pos

\* C21 (reversed track range): a --track-range argument whose end is smaller
\* than its start terminates the program during option parsing, so the
\* options never hold such a range while the program goes on, whatever
\* options came before.
C21_ReversedTrackRange ==
    (options.track_num_end < options.track_num_start) => pc = "usage"

\* An option has just been handled that changed the track range.
TrackRangeParsed ==
    /\ pc = "getopt"
    /\ \/ options'.track_num_start # options.track_num_start
       \/ options'.track_num_end # options.track_num_end

\* C22 (positive track numbers): a --track-range argument with 0 as its
\* start or as its end terminates the program, so a track range that
\* parsing has accepted has both its bounds positive.
C22_PositiveTrackNumbers ==
    [][ (TrackRangeParsed /\ pc' # "usage")
          => options'.track_num_start > 0 /\ options'.track_num_end > 0 ]_vars

\* A tick that attempts an append on a full lead-in buffer: extraction mode,
\* a signal verdict at the onset or while the track is starting with dwell
\* left, and no room in the buffer.
OverflowTick ==
    /\ Tick
    /\ Extracting(options)
    /\ Len(state.leadin_buf) >= state.leadin_buf_len
    /\ we_have_signal(state)
    /\ \/ state.cut_context = "CCTX_SILENCE"
       \/ state.cut_context = "CCTX_TRACK_STARTING" /\ state.time_to_live > 0

\* C23 (lead-in overflow): an append attempted on a full lead-in buffer
\* only raises a warning: the buffer is as it was, nothing is written to an
\* output file, the run is not aborted, and the context and the dwell
\* counter are what the tick gives them without the overflow (the onset
\* enters CCTX_TRACK_STARTING with time_to_live = min_signal_len - 1, a
\* starting tick counts time_to_live down by one).
C23_OverflowWarning ==
    [][ OverflowTick
          => /\ state'.leadin_buf = state.leadin_buf
             /\ io'.warned
             /\ ~io'.fatal /\ pc' # "fatal"
             /\ io'.out_files = io.out_files
             /\ state'.cut_context = "CCTX_TRACK_STARTING"
             /\ state'.time_to_live =
                   IF state.cut_context = "CCTX_SILENCE"
                   THEN state.min_signal_len - 1 ELSE state.time_to_live - 1
             /\ state'.cur_track_num = state.cur_track_num ]_vars

\* A run that overflowed the lead-in buffer (one of length 0) went on to
\* extract a track and to finish: the file of the track holds frames and is
\* closed.
C23_Witness ==
    /\ pc = "done"
    /\ io.warned /\ ~io.fatal
    /\ state.leadin_buf_len = 0
    /\ Len(io.out_files) >= 1
    /\ ~io.out_files[1].open
    /\ io.out_files[1].count > 0

\* The sample type the last of --signed, --unsigned and --floating-point
\* named, "none" when none was given.
SampleType ==
    IF ~parse.raw_sign_given THEN "none"
    ELSE IF parse.raw_is_fp THEN "floating-point"
    ELSE IF parse.raw_is_signed THEN "signed" ELSE "unsigned"

\* The sample formats the program reads from raw input.
AcceptedRaw ==
    { <<"unsigned", 8>>,
      <<"signed", 8>>, <<"signed", 16>>, <<"signed", 24>>, <<"signed", 32>>,
      <<"floating-point", 32>>, <<"floating-point", 64>> }

\* Every raw parameter has been given, --bits with one of the five sizes.
RawParametersGiven ==
    /\ options.input_is_raw
    /\ parse.raw_rate_given /\ parse.raw_channels_given /\ parse.raw_endian_given
    /\ parse.raw_bits_given /\ parse.raw_bits \in {8, 16, 24, 32, 64}
    /\ parse.raw_sign_given

\* C24 (raw-input validation): the sample type is the one the last type
\* flag named, whatever flags came before and whatever other options follow
\* it; with every raw parameter given and one input file named, the end of
\* parsing accepts the command line exactly when the type and the sample size
\* are 8-bit unsigned, 8/16/24/32-bit signed or 32/64-bit floating-point and
\* terminates the program otherwise, and an accepted command line gets the
\* matching format code.
C24_RawValidation ==
    /\ [][ParseSigned => SampleType' = "signed"]_vars
    /\ [][ParseUnsigned => SampleType' = "unsigned"]_vars
    /\ [][ParseFloatingPoint => SampleType' = "floating-point"]_vars
    /\ [][ (ParseRaw \/ ParseRate \/ ParseChannels \/ ParseBits
              \/ ParseBigEndian \/ ParseLittleEndian \/ ParseEnd)
           => SampleType' = SampleType ]_vars
    /\ []( (pc = "getopt" /\ RawParametersGiven)
            => ( parse_options_end(options, parse, <<"input.wav">>).fatal
                   <=> <<SampleType, parse.raw_bits>> \notin AcceptedRaw ) )
    /\ []( (pc = "parsed" /\ options.input_is_raw)
            => /\ RawParametersGiven
               /\ <<SampleType, parse.raw_bits>> \in AcceptedRaw
               /\ options.format.subtype =
                     IF SampleType = "floating-point"
                     THEN (IF parse.raw_bits = 32 THEN "SF_FORMAT_FLOAT" ELSE "SF_FORMAT_DOUBLE")
                     ELSE IF SampleType = "unsigned" THEN "SF_FORMAT_PCM_U8"
                     ELSE IF parse.raw_bits = 8 THEN "SF_FORMAT_PCM_S8"
                     ELSE IF parse.raw_bits = 16 THEN "SF_FORMAT_PCM_16"
                     ELSE IF parse.raw_bits = 24 THEN "SF_FORMAT_PCM_24"
                     ELSE "SF_FORMAT_PCM_32" )

\* A command line with --signed and then --floating-point and 16-bit samples
\* has been turned down at the end of parsing.
C24_Witness ==
    /\ pc = "usage"
    /\ RawParametersGiven
    /\ options.in_file_name = "input.wav"
    /\ options.channels <= MAX_CHANNELS
    /\ parse.raw_is_fp /\ parse.raw_is_signed
    /\ parse.raw_bits = 16

\* r * p / 1000 in exact arithmetic.
ExactScale(r, p) == (r * (p \div 1000)) + ((r * (p % 1000)) \div 1000)

\* C25 (derived lengths): once init_state has run, min_silence_len is
\* floor(R * min_silence_period / 1000) and min_signal_len is
\* floor(R * min_signal_period / 1000), both non-negative, and min_track_len
\* is R * min_track_length, for the sample rate R of the input and every
\* period and length the option parser accepted.
C25_DerivedLengths ==
    pc = "loop"
        => /\ state.min_silence_len = ExactScale(state.samplerate, options.min_silence_period)
           /\ state.min_silence_len >= 0
           /\ state.min_signal_len = ExactScale(state.samplerate, options.min_signal_period)
           /\ state.min_signal_len >= 0
           /\ state.min_track_len >= 0
           /\ state.min_track_len % state.samplerate = 0
           /\ state.min_track_len \div state.samplerate = options.min_track_length

\* C26 (names skipped): with a track range A-B and a track names file, the
\* first A lines of the names file (all of them when it has fewer) have
\* been consumed before a track is named, so the first track named carries
\* line A + 1.
C26_NamesSkipped ==
    (options.track_names_file_name # NULL /\ options.track_num_start >= 1)
        => /\ Begins(gh) = 0 =>
                 io.names_file.pos = Min(options.track_num_start, Len(io.names_file.lines))
           /\ (io.cuts # << >> /\ options.track_num_start < Len(io.names_file.lines))
                 => io.cuts[1].name = io.names_file.lines[options.track_num_start + 1]

\* The last tick taken closed a run of n equal verdicts sig that began in
\* context ctx, and the main loop has not been left since.
RunOf(sig, ctx, n) ==
    /\ pc \in {"loop", "exit"}
    /\ run.len = n
    /\ run.sig = sig
    /\ run.ctx0 = ctx

\* C27 (signal frames to start): min_signal_len is the number of signal
\* frames that start a track: a run of exactly min_signal_len signal ticks
\* that began in CCTX_SILENCE has put the machine in CCTX_TRACK on its last
\* tick, with cur_track_start the index of the first tick of the run.
C27_SignalFrames ==
    (state.min_signal_len >= 1 /\ RunOf(TRUE, "CCTX_SILENCE", state.min_signal_len))
        => /\ state.cut_context = "CCTX_TRACK"
           /\ state.cur_track_start = state.cur_frame_pos - state.min_signal_len

\* C28 (silence frames to end): min_silence_len is the number of silence
\* frames that end a track: a run of exactly min_silence_len silence ticks
\* that began in CCTX_TRACK, its first tick min_track_len frames or more
\* past the start of the track, has ended the track on its last tick: the
\* machine is in CCTX_SILENCE and one TRACK_END was recorded during the run.
C28_SilenceFrames ==
    ( /\ state.min_silence_len >= 1
      /\ RunOf(FALSE, "CCTX_TRACK", state.min_silence_len)
      /\ state.cur_frame_pos - state.min_silence_len
             >= state.cur_track_start + state.min_track_len )
        => /\ state.cut_context = "CCTX_SILENCE"
           /\ Len(gh.events) = run.out0.events + 1
           /\ gh.events[Len(gh.events)].ev = "TRACK_END"

\* C29 (revert resets the dwell): a signal tick in CCTX_TRACK_ENDING takes
\* the machine back to CCTX_TRACK without ending the track (no TRACK_END,
\* no row, no file closed, same track number); every entry to
\* CCTX_TRACK_ENDING starts the countdown afresh at min_silence_len, and a
\* silence tick that stays in CCTX_TRACK_ENDING takes one off it.
C29_RevertResetsDwell ==
    /\ [][ (Tick /\ state.cut_context = "CCTX_TRACK_ENDING" /\ run'.sig)
           => /\ state'.cut_context = "CCTX_TRACK"
              /\ gh'.events = gh.events
              /\ io'.cuts = io.cuts
              /\ state'.out_file = state.out_file
              /\ state'.cur_track_num = state.cur_track_num
              /\ state'.cur_track_start = state.cur_track_start ]_vars
    /\ [][ (Tick /\ state.cut_context = "CCTX_TRACK"
                 /\ state'.cut_context = "CCTX_TRACK_ENDING")
           => state'.time_to_live = state.min_silence_len ]_vars
    /\ [][ (Tick /\ state.cut_context = "CCTX_TRACK_ENDING"
                 /\ state'.cut_context = "CCTX_TRACK_ENDING")
           => state'.time_to_live = state.time_to_live - 1 ]_vars
    /\ [](state.cut_context = "CCTX_TRACK_ENDING"
            => state.time_to_live \in 0 .. state.min_silence_len)

\* A signal tick has just taken a track back from CCTX_TRACK_ENDING to
\* CCTX_TRACK with part of the countdown used, and the track goes on.
C29_Witness ==
    /\ Tick
    /\ state.cut_context = "CCTX_TRACK"
    /\ RunOf(TRUE, "CCTX_TRACK_ENDING", 1)
    /\ state.min_silence_len >= 2
    /\ state.time_to_live < state.min_silence_len
    /\ gh.events[Len(gh.events)].ev = "TRACK_BEGIN"
    /\ Len(gh.events) = run.out0.events

\* The edges of the cutting state machine.
ContextEdges ==
    { << "CCTX_SILENCE", "CCTX_TRACK_STARTING" >>,
      << "CCTX_TRACK_STARTING", "CCTX_SILENCE" >>,
      << "CCTX_TRACK_STARTING", "CCTX_TRACK" >>,
      << "CCTX_TRACK", "CCTX_TRACK_ENDING" >>,
      << "CCTX_TRACK_ENDING", "CCTX_TRACK" >>,
      << "CCTX_TRACK_ENDING", "CCTX_SILENCE" >> }

\* C30 (no skipped states): the machine is in CCTX_SILENCE until the first
\* tick, only a tick changes cut_context, and a tick either leaves it alone
\* or takes one of the six edges SILENCE -> TRACK_STARTING, TRACK_STARTING
\* -> SILENCE, TRACK_STARTING -> TRACK, TRACK -> TRACK_ENDING, TRACK_ENDING
\* -> TRACK, TRACK_ENDING -> SILENCE.
C30_ContextEdges ==
    /\ [](run.len = 0 => state.cut_context = "CCTX_SILENCE")
    /\ [][ state'.cut_context # state.cut_context
              => /\ Tick
                 /\ << state.cut_context, state'.cut_context >> \in ContextEdges ]_vars

\* A second track has been through the whole cycle: it began, went to
\* CCTX_TRACK_ENDING and its end has just taken the machine to CCTX_SILENCE.
C30_Witness ==
    /\ RunOf(FALSE, "CCTX_TRACK", state.min_silence_len + 2)
    /\ state.cut_context = "CCTX_SILENCE"
    /\ state.cur_track_num = 3
    /\ Len(gh.events) = 4
    /\ gh.events[4].ev = "TRACK_END"

\* The per-track files that are open.
OpenFiles == { k \in DOMAIN io.out_files : io.out_files[k].open }

\* C31 (writer lifetime): in extraction mode the open per-track files are
\* the one state.out_file names, if any; between ticks out_file is open
\* exactly when cut_context is CCTX_TRACK or CCTX_TRACK_ENDING; a tick
\* writes to no file but the one open before it or opened by it, and never
\* commits a frame without an open file; no file is open after cutter_loop
\* has returned.
C31_WriterLifetime ==
    /\ [](Extracting(options) =>
            /\ OpenFiles = IF state.out_file = 0 THEN {} ELSE {state.out_file}
            /\ ~io.fatal
            /\ pc \in {"loop", "exit"} => (state.out_file # 0 <=> InTrack)
            /\ pc = "done" => OpenFiles = {})
    /\ [][ (Tick /\ Extracting(options))
           => \A k \in DOMAIN io'.out_files :
                 (k \notin DOMAIN io.out_files \/ io'.out_files[k] # io.out_files[k])
                    => /\ k \in {state.out_file, state'.out_file}
                       /\ k = state'.out_file => state'.cut_context \in
                              {"CCTX_TRACK", "CCTX_TRACK_ENDING"} ]_vars

\* The input ran out with the second track under way: both files are
\* closed after cutter_loop, the second by the forced end.
C31_Witness ==
    /\ pc = "done"
    /\ Extracting(options)
    /\ Len(io.out_files) = 2
    /\ state.cut_context \in {"CCTX_TRACK", "CCTX_TRACK_ENDING"}
    /\ state.out_file = 0
    /\ io.out_files[2].count > 0
    /\ ~io.out_files[2].open

\* The slots of a ring of W frames.
Slots == 0 .. (W - 1)

\* C32 (ring cursor geometry): once init_state has primed the rings, at
\* every tick the head is the slot just before the tail modulo W, the centre
\* is W/2 slots ahead of the tail modulo W, every cursor is a slot of its
\* ring, and the sq cursors are at the same slots as the main cursors.
C32_CursorGeometry ==
    /\ (state.main_buf_head + 1) % W = state.main_buf_tail
    /\ (state.main_buf_tail + (W \div 2)) % W = state.main_buf_cen
    /\ {state.main_buf_head, state.main_buf_cen, state.main_buf_tail} \subseteq Slots
    /\ {state.sq_buf_head, state.sq_buf_cen, state.sq_buf_tail} \subseteq Slots
    /\ << state.sq_buf_head, state.sq_buf_cen, state.sq_buf_tail >>
          = << state.main_buf_head, state.main_buf_cen, state.main_buf_tail >>

\* A tick on a window of five frames with the tail cursor wrapped to the
\* base after a full turn, the head at the last slot.
C32_Witness ==
    /\ Tick
    /\ W = 5
    /\ state.cur_frame_pos >= options.start_frame_idx + W
    /\ state.main_buf_tail = 0
    /\ state.main_buf_head = 4
    /\ state.main_buf_cen = 2

\* The input has run out for the loop: the codec has reported its end or
\* the frames of the frame range have all been admitted.
InputOver == state.in_eof \/ state.frames_remaining = 0

\* C33 (termination): every run leaves the cutter loop and returns; once
\* the codec has reported the end of the input, frames_remaining is at most
\* the read-ahead count, and from then on, as after frames_remaining has
\* reached 0, every tick either takes one off frames_remaining or is the
\* last, the tick at frames_remaining = 0 being the last: at most
\* ra_frame_cnt + 1 further ticks are executed.
C33_Termination ==
    /\ <>(pc = "done")
    /\ []((Tick /\ state.in_eof) => state.frames_remaining <= state.ra_frame_cnt)
    /\ [][ (Tick /\ InputOver)
           => /\ pc' \in {"loop", "exit"}
              /\ pc' = "loop" => state'.frames_remaining = state.frames_remaining - 1
              /\ state.frames_remaining = 0 => pc' = "exit"
              /\ state'.cur_frame_pos = state.cur_frame_pos + 1 ]_vars

\* The run has returned after draining the whole read-ahead of a window of
\* five frames past the end of the input.
C33_Witness ==
    /\ pc = "done"
    /\ state.in_eof
    /\ state.frames_remaining = 0
    /\ W = 5
    /\ gh.pads = state.ra_frame_cnt

\* C34 (no padding output): every frame written to a per-track file and
\* every centre frame the state machine is about to judge is a frame read
\* from the input: its index is below the position the input has been read
\* to, which is the length L of the input once the codec has reported its
\* end.
C34_NoPaddingOutput ==
    /\ \A k \in DOMAIN io.out_files :
          io.out_files[k].count > 0 => io.out_files[k].last < io.in_file.pos
    /\ Tick => state.cur_frame_pos < io.in_file.pos

\* C35 (cut log within the input): with no frame range, every start and
\* end index of a row of the cuts file, the row of a track ended by the end
\* of the input included, is at most the number of frames L of the input
\* (the position the input has been read to).
C35_CutLogWithinInput ==
    options.start_frame_idx = 0 /\ options.end_frame_idx = SfCountMax
        => \A i \in DOMAIN io.cuts :
              /\ io.cuts[i].start <= io.in_file.pos
              /\ io.cuts[i].end <= io.in_file.pos

\* C36 (duration matches length): a per-track file that has been closed, by
\* a track end the state machine made or by the end of the input, holds as
\* many frames (lead-in frames and committed frames) as the duration
\* cur_frame_pos - cur_track_start reported when it was closed.
C36_DurationMatchesLength ==
    \A k \in DOMAIN io.out_files :
        ~io.out_files[k].open
            => io.out_files[k].count = io.out_files[k].closed_at - io.out_files[k].start

\* The frame indices first, first + 1, ... of n frames.
IndicesFrom(first, n) == [i \in 1 .. n |-> first + i - 1]

\* C37 (lead-in buffer never overflows): in extraction mode with
\* min_signal_len >= 1 the lead-in buffer never holds more than
\* min_signal_len frames and the overflow warning is never raised; while a
\* track is starting the buffer holds the min_signal_len - time_to_live
\* centre frames from cur_track_start on, so at confirmation (time_to_live
\* = 0) exactly the min_signal_len frames starting at cur_track_start, which
\* the confirming tick writes to the new file ahead of the centre frame.
C37_LeadInNeverOverflows ==
    /\ []((Extracting(options) /\ state.min_signal_len >= 1) =>
            /\ Len(state.leadin_buf) <= state.min_signal_len
            /\ state.leadin_buf_len = state.min_signal_len
            /\ ~io.warned
            /\ ~OverflowTick
            /\ (Tick /\ state.cut_context = "CCTX_TRACK_STARTING") =>
                  /\ state.time_to_live \in 0 .. (state.min_signal_len - 1)
                  /\ Len(state.leadin_buf) = state.min_signal_len - state.time_to_live
                  /\ gh.leadin_idx =
                        IndicesFrom(state.cur_track_start, Len(state.leadin_buf))
                  /\ state.leadin_buf = gh.leadin_filt)
    /\ [][ ( /\ Tick /\ Extracting(options) /\ state.min_signal_len >= 1
             /\ state.cut_context = "CCTX_TRACK_STARTING"
             /\ state'.cut_context = "CCTX_TRACK" )
           => /\ Len(state.leadin_buf) = state.min_signal_len
              /\ io'.out_files[state'.out_file].first = state.cur_track_start
              /\ io'.out_files[state'.out_file].count = state.min_signal_len + 1
              /\ io'.out_files[state'.out_file].contig ]_vars

\* The second track of an extraction is about to be confirmed: the lead-in
\* buffer of three frames is full, from the onset of the track on.
C37_Witness ==
    /\ Tick
    /\ Extracting(options)
    /\ state.cut_context = "CCTX_TRACK_STARTING"
    /\ state.time_to_live = 0
    /\ state.min_signal_len = 3
    /\ state.cur_track_num = 2
    /\ Len(state.leadin_buf) = 3
    /\ gh.leadin_idx[1] = state.cur_track_start
    /\ state.cur_track_start > 0

\* The slot j places past the tail of the rings.
SlotFromTail(j) == (state.main_buf_tail + j) % W

\* C38 (window content): at every tick with centre frame index p, the slots
\* of the sq ring, from the tail on, hold for every channel the squares of
\* the filtered frames p - W/2, ..., p + (W - W/2) - 1, frames before the
\* start of processing being zero: W frames around p, the frame at the head
\* (the newest admitted) and the centre frame p among them.
C38_WindowContent ==
    Tick =>
        /\ \A j \in 0 .. (W - 1) : \A c \in Channels(state.numchannels) :
              LET s == SlotFromTail(j)
                  idx == (state.cur_frame_pos - (W \div 2)) + j
              IN IF idx < options.start_frame_idx
                 THEN state.sq_buf[s][c] = 0
                 ELSE /\ gh.ring_idx[s] = idx
                      /\ state.sq_buf[s][c] = gh.ring_filt[s][c] * gh.ring_filt[s][c]
        /\ SlotFromTail(W - 1) = state.sq_buf_head
        /\ SlotFromTail(W \div 2) = state.sq_buf_cen
        /\ gh.ring_idx[state.sq_buf_head] = (state.cur_frame_pos + (W - (W \div 2))) - 1
        /\ gh.ring_idx[state.sq_buf_cen] = state.cur_frame_pos

\* The second tick on a window of five frames: the tail slot stands for
\* the frame before the start and is zero, the centre holds frame 1 and the
\* head frame 3, both squares of signal.
C38_Witness ==
    /\ Tick
    /\ W = 5
    /\ state.cur_frame_pos = options.start_frame_idx + 1
    /\ state.sq_buf[state.sq_buf_tail][0] = 0
    /\ state.sq_buf[state.sq_buf_cen][0] > 0
    /\ state.sq_buf[state.sq_buf_head][0] > 0
    /\ gh.ring_idx[state.sq_buf_head] = options.start_frame_idx + 3

\* C39 (divisor of the average RMS): in analysis mode, when the analysis
\* is printed, frames_proc_ttl, the divisor of the average RMS, is the
\* number of RMS values added to rms_ttl (the calls of analyse_new_frame).
C39_AverageDivisor ==
    /\ pc = "print" => state.frames_proc_ttl = gh.analysed
    /\ (pc = "done" /\ options.task = "TCT_ANALYSIS")
          => gh.printed.avg_rms_divisor = gh.analysed

====
